---------------------------- MODULE Spec2Model ----------------------------
(***************************************************************************)
(* Decision core of the NEoWave trading chatbot: the judge                 *)
(* (src/lib/judge/index.ts), the trading state machine                     *)
(* (lib/state-machine) and the POST /api/chat cycle                        *)
(* (src/app/api/chat/route.ts).                                            *)
(*                                                                         *)
(* Numbers that carry one decimal in the source (risk/reward estimates,    *)
(* stop distances, risk percent, the 1.5 threshold) are held in TENTHS:    *)
(* 2.0 is 20, 1.5 is 15, 999 is 9990.  Sub-scores and totals are plain     *)
(* integers.  An optional value is <<>> when absent and <<v>> when set.    *)
(* Text is a tuple of one-character strings so that toLowerCase() and      *)
(* includes() are computed, not assumed.                                   *)
(***************************************************************************)
EXTENDS Integers, Sequences, FiniteSets, TLC

VARIABLES
    args,             \* pure-function harness: the arguments of the call
    ret,              \* pure-function harness: <<>> before the call, then the results
    pc,               \* per request: position in the POST /api/chat handler
    body,             \* per request: the parsed request body
    convId,           \* per request: route.ts:73
    currentState,     \* per request: route.ts:110 stateMachine.getState()
    gptOutput,        \* per request: route.ts:114
    geminiOutput,     \* per request: route.ts:123
    gptEval,          \* per request: what the evaluator did for proposal 'gpt'
    geminiEval,       \* per request: what the evaluator did for proposal 'gemini'
    gptScore,         \* per request: judge/index.ts:48
    finalDecision,    \* per request: route.ts:133
    riskCheck,        \* per request: route.ts:149
    response,         \* per request: what the handler returned
    runs,             \* table runs: per request, the row it inserted
    conversations,    \* table conversations: number of rows
    trading_states,   \* table trading_states: triple -> row
    machine,          \* a TradingStateMachine object: currentState, history
    timers,           \* the deadlines of its pending setTimeout callbacks
    now               \* the clock, in seconds

localVars == <<body, convId, currentState, gptOutput, geminiOutput, gptEval,
               geminiEval, gptScore, finalDecision, riskCheck>>

cycleVars == <<pc, localVars, response, runs, conversations, trading_states>>

machineVars == <<machine, timers, now>>

vars == <<args, ret, cycleVars, machineVars>>

-----------------------------------------------------------------------------
(* Bounds of the model *)

\* largest sub-score value the evaluator is taken to answer (the rubric asks for 0-2)
MaxSubScore == 2
\* largest stop distance the evaluator is taken to answer, in whole percent
MaxStop == 2
\* largest risk/reward estimate of a proposal, in whole units
MaxRR == 3
\* number of conversations the handler may create
MaxConversations == 1
\* last second of the clock
MaxTime == 7
\* number of entries of a machine's history up to which it is called
MaxHistory == 4
\* number of chunks in the knowledge store
MaxChunks == 5

-----------------------------------------------------------------------------
(* Values *)

None == <<>>
Some(v) == <<v>>

Directions == {"LONG", "SHORT", "HOLD"}

TradingStates == {"WAITING", "BREAKOUT_WATCH", "CONFIRMED_IMPULSE",
                  "CONFIRMED_CORRECTION", "INVALIDATED_RESET"}

Scenarios == {"gpt", "gemini"}

\* the marker of a non-trading exchange (judge/index.ts:19), by code point
GeneralChatLabel == <<"U+C77C", "U+BC18", " ", "U+B300", "U+D654">>

LabelImpulse == <<"I","m","p","u","l","s","e"," ","w","a","v","e"," ","3">>
LabelCorrection == <<"A","B","C"," ","C","O","R","R","E","C","T","I","O","N">>
LabelBoth == <<"c","o","r","r","e","c","t","i","o","n"," ","i","n"," ",
               "I","M","P","U","L","S","E">>
LabelTriangle == <<"T","r","i","a","n","g","l","e">>

TradingLabels == {LabelImpulse, LabelCorrection, LabelBoth, LabelTriangle}
Labels == TradingLabels \cup {GeneralChatLabel}

UpperCase == <<"A","B","C","D","E","F","G","H","I","J","K","L","M",
               "N","O","P","Q","R","S","T","U","V","W","X","Y","Z">>
LowerCase == <<"a","b","c","d","e","f","g","h","i","j","k","l","m",
               "n","o","p","q","r","s","t","u","v","w","x","y","z">>

\* String.prototype.toLowerCase, one character
LowerChar(c) ==
    IF \E i \in 1..Len(UpperCase) : UpperCase[i] = c
    THEN LowerCase[CHOOSE i \in 1..Len(UpperCase) : UpperCase[i] = c]
    ELSE c

toLowerCase(s) == [i \in 1..Len(s) |-> LowerChar(s[i])]

\* String.prototype.includes
includes(s, sub) ==
    \E i \in 1..(Len(s) - Len(sub) + 1) : SubSeq(s, i, i + Len(sub) - 1) = sub

WordImpulse == <<"i","m","p","u","l","s","e">>
WordCorrection == <<"c","o","r","r","e","c","t","i","o","n">>

\* the JS expression `opt || dflt` on an optional number: undefined and 0 are falsy
OrElse(opt, dflt) == IF opt = None \/ opt[1] = 0 THEN dflt ELSE opt[1]

-----------------------------------------------------------------------------
(* The evaluator (model.generateContent in scoreScenario) *)

EvalFailures == {"throw", "no_json", "bad_json"}

NoScores == [rule_validity |-> TRUE, invalidation_clarity |-> 0,
             risk_reward |-> 0, structure_simplicity |-> 0,
             resolution_speed |-> 0, stop_distance |-> None]

\* the evaluator's parsed answers with sub-scores in subs and stops in stops
EvalAnswers(subs, stops) ==
    [rule_validity : BOOLEAN, invalidation_clarity : subs, risk_reward : subs,
     structure_simplicity : subs, resolution_speed : subs,
     stop_distance : stops]

EvalOutcomes(subs, stops) ==
    {[kind |-> k, scores |-> NoScores] : k \in EvalFailures}
    \cup {[kind |-> "ok", scores |-> s] : s \in EvalAnswers(subs, stops)}

\* stop distances in tenths of a percent: absent, 0, 1.0, 2.0, ...
StopDistances == {None} \cup {Some(10 * n) : n \in 0..MaxStop}

-----------------------------------------------------------------------------
(* src/lib/judge/index.ts *)

\* a catch branch that answers a failed score instead of the neutral one
FallbackScore_failed(scenario) ==
    [scenario |-> scenario, rule_validity |-> FALSE, invalidation_clarity |-> 0,
     risk_reward |-> 0, structure_simplicity |-> 0, resolution_speed |-> 0,
     total_score |-> 0, stop_distance |-> None]

\* a catch branch whose score passes the gate's risk/reward check
FallbackScore_rr2(scenario) ==
    [scenario |-> scenario, rule_validity |-> TRUE, invalidation_clarity |-> 1,
     risk_reward |-> 2, structure_simplicity |-> 1, resolution_speed |-> 1,
     total_score |-> 5, stop_distance |-> Some(20)]

\* the catch branch of scoreScenario
FallbackScore(scenario) ==
    [scenario |-> scenario, rule_validity |-> TRUE, invalidation_clarity |-> 1,
     risk_reward |-> 1, structure_simplicity |-> 1, resolution_speed |-> 1,
     total_score |-> 4, stop_distance |-> Some(20)]

\* scoreScenario without the zeroing of the total on a rule violation
scoreScenario_noZero(scenario, outcome) ==
    IF outcome.kind /= "ok"
    THEN FallbackScore(scenario)
    ELSE LET scores == outcome.scores
             totalScore == scores.invalidation_clarity + scores.risk_reward
                           + scores.structure_simplicity
                           + scores.resolution_speed
         IN [scenario |-> scenario,
             rule_validity |-> scores.rule_validity,
             invalidation_clarity |-> scores.invalidation_clarity,
             risk_reward |-> scores.risk_reward,
             structure_simplicity |-> scores.structure_simplicity,
             resolution_speed |-> scores.resolution_speed,
             total_score |-> totalScore,
             stop_distance |-> scores.stop_distance]

scoreScenario(scenario, outcome) ==
    IF outcome.kind /= "ok"
    THEN FallbackScore(scenario)
    ELSE LET scores == outcome.scores
             totalScore == IF scores.rule_validity
                           THEN scores.invalidation_clarity + scores.risk_reward
                                + scores.structure_simplicity
                                + scores.resolution_speed
                           ELSE 0
         IN [scenario |-> scenario,
             rule_validity |-> scores.rule_validity,
             invalidation_clarity |-> scores.invalidation_clarity,
             risk_reward |-> scores.risk_reward,
             structure_simplicity |-> scores.structure_simplicity,
             resolution_speed |-> scores.resolution_speed,
             total_score |-> totalScore,
             stop_distance |-> scores.stop_distance]

Abs(n) == IF n < 0 THEN -n ELSE n

\* the value substituted for a falsy stop distance (999, in tenths)
MissingStop == 9990

\* selectBestScenario without its third rule-validity test
selectBestScenario_noGeminiTest(gScore, mScore) ==
    IF ~gScore.rule_validity /\ ~mScore.rule_validity THEN "gpt"
    ELSE IF ~gScore.rule_validity THEN "gemini"
    ELSE LET scoreDiff == Abs(gScore.total_score - mScore.total_score)
         IN IF scoreDiff >= 2
            THEN (IF gScore.total_score > mScore.total_score
                  THEN "gpt" ELSE "gemini")
            ELSE LET gptStop == OrElse(gScore.stop_distance, MissingStop)
                     geminiStop == OrElse(mScore.stop_distance, MissingStop)
                 IN IF gptStop <= geminiStop THEN "gpt" ELSE "gemini"

\* selectBestScenario with the score gap taken at 3 instead of 2
selectBestScenario_gap3(gScore, mScore) ==
    IF ~gScore.rule_validity /\ ~mScore.rule_validity THEN "gpt"
    ELSE IF ~gScore.rule_validity THEN "gemini"
    ELSE IF ~mScore.rule_validity THEN "gpt"
    ELSE LET scoreDiff == Abs(gScore.total_score - mScore.total_score)
         IN IF scoreDiff >= 3
            THEN (IF gScore.total_score > mScore.total_score
                  THEN "gpt" ELSE "gemini")
            ELSE LET gptStop == OrElse(gScore.stop_distance, MissingStop)
                     geminiStop == OrElse(mScore.stop_distance, MissingStop)
                 IN IF gptStop <= geminiStop THEN "gpt" ELSE "gemini"

\* selectBestScenario with a strict comparison of the stop distances
selectBestScenario_strict(gScore, mScore) ==
    IF ~gScore.rule_validity /\ ~mScore.rule_validity THEN "gpt"
    ELSE IF ~gScore.rule_validity THEN "gemini"
    ELSE IF ~mScore.rule_validity THEN "gpt"
    ELSE LET scoreDiff == Abs(gScore.total_score - mScore.total_score)
         IN IF scoreDiff >= 2
            THEN (IF gScore.total_score > mScore.total_score
                  THEN "gpt" ELSE "gemini")
            ELSE LET gptStop == OrElse(gScore.stop_distance, MissingStop)
                     geminiStop == OrElse(mScore.stop_distance, MissingStop)
                 IN IF gptStop < geminiStop THEN "gpt" ELSE "gemini"

selectBestScenario(gScore, mScore) ==
    IF ~gScore.rule_validity /\ ~mScore.rule_validity THEN "gpt"
    ELSE IF ~gScore.rule_validity THEN "gemini"
    ELSE IF ~mScore.rule_validity THEN "gpt"
    ELSE LET scoreDiff == Abs(gScore.total_score - mScore.total_score)
         IN IF scoreDiff >= 2
            THEN (IF gScore.total_score > mScore.total_score
                  THEN "gpt" ELSE "gemini")
            ELSE LET gptStop == OrElse(gScore.stop_distance, MissingStop)
                     geminiStop == OrElse(mScore.stop_distance, MissingStop)
                 IN IF gptStop <= geminiStop THEN "gpt" ELSE "gemini"

\* riskReward and the result in tenths
calculateRiskPercent(riskReward) ==
    IF riskReward >= 30 THEN 20
    ELSE IF riskReward >= 20 THEN 15
    ELSE 10

\* determineNextState confirming straight from WAITING on a matching label
determineNextState_skipWatch(state, output) ==
    IF output.direction = "HOLD" THEN "WAITING"
    ELSE CASE state \in {"WAITING", "BREAKOUT_WATCH"} ->
                IF includes(toLowerCase(output.scenario_label), WordImpulse)
                THEN "CONFIRMED_IMPULSE"
                ELSE IF includes(toLowerCase(output.scenario_label),
                                 WordCorrection)
                THEN "CONFIRMED_CORRECTION"
                ELSE "BREAKOUT_WATCH"
           [] state \in {"CONFIRMED_IMPULSE", "CONFIRMED_CORRECTION"} -> state
           [] state = "INVALIDATED_RESET" -> "WAITING"
           [] OTHER -> "WAITING"

\* determineNextState with the HOLD test applied only while WAITING
determineNextState_holdWaitingOnly(state, output) ==
    CASE state = "WAITING" ->
            IF output.direction = "HOLD" THEN "WAITING" ELSE "BREAKOUT_WATCH"
      [] state = "BREAKOUT_WATCH" ->
            IF includes(toLowerCase(output.scenario_label), WordImpulse)
            THEN "CONFIRMED_IMPULSE"
            ELSE IF includes(toLowerCase(output.scenario_label), WordCorrection)
            THEN "CONFIRMED_CORRECTION"
            ELSE "BREAKOUT_WATCH"
      [] state \in {"CONFIRMED_IMPULSE", "CONFIRMED_CORRECTION"} -> state
      [] state = "INVALIDATED_RESET" -> "WAITING"
      [] OTHER -> "WAITING"

\* determineNextState reading the label again in a confirmed state
determineNextState_confirmedByLabel(state, output) ==
    IF output.direction = "HOLD" THEN "WAITING"
    ELSE CASE state = "WAITING" -> "BREAKOUT_WATCH"
           [] state \in {"BREAKOUT_WATCH", "CONFIRMED_IMPULSE",
                         "CONFIRMED_CORRECTION"} ->
                IF includes(toLowerCase(output.scenario_label), WordImpulse)
                THEN "CONFIRMED_IMPULSE"
                ELSE IF includes(toLowerCase(output.scenario_label),
                                 WordCorrection)
                THEN "CONFIRMED_CORRECTION"
                ELSE state
           [] state = "INVALIDATED_RESET" -> "WAITING"
           [] OTHER -> "WAITING"

\* determineNextState testing the label for 'correction' before 'impulse'
determineNextState_correctionFirst(state, output) ==
    IF output.direction = "HOLD" THEN "WAITING"
    ELSE CASE state = "WAITING" -> "BREAKOUT_WATCH"
           [] state = "BREAKOUT_WATCH" ->
                IF includes(toLowerCase(output.scenario_label), WordCorrection)
                THEN "CONFIRMED_CORRECTION"
                ELSE IF includes(toLowerCase(output.scenario_label),
                                 WordImpulse)
                THEN "CONFIRMED_IMPULSE"
                ELSE "BREAKOUT_WATCH"
           [] state \in {"CONFIRMED_IMPULSE", "CONFIRMED_CORRECTION"} -> state
           [] state = "INVALIDATED_RESET" -> "WAITING"
           [] OTHER -> "WAITING"

\* determineNextState treating INVALIDATED_RESET like WAITING
determineNextState_resetWatches(state, output) ==
    IF output.direction = "HOLD" THEN "WAITING"
    ELSE CASE state \in {"WAITING", "INVALIDATED_RESET"} -> "BREAKOUT_WATCH"
           [] state = "BREAKOUT_WATCH" ->
                IF includes(toLowerCase(output.scenario_label), WordImpulse)
                THEN "CONFIRMED_IMPULSE"
                ELSE IF includes(toLowerCase(output.scenario_label),
                                 WordCorrection)
                THEN "CONFIRMED_CORRECTION"
                ELSE "BREAKOUT_WATCH"
           [] state \in {"CONFIRMED_IMPULSE", "CONFIRMED_CORRECTION"} -> state
           [] OTHER -> "WAITING"

\* determineNextState going back to the watch from a confirmed state
determineNextState_watchFromConfirmed(state, output) ==
    IF output.direction = "HOLD" THEN "WAITING"
    ELSE CASE state = "WAITING" -> "BREAKOUT_WATCH"
           [] state = "BREAKOUT_WATCH" ->
                IF includes(toLowerCase(output.scenario_label), WordImpulse)
                THEN "CONFIRMED_IMPULSE"
                ELSE IF includes(toLowerCase(output.scenario_label),
                                 WordCorrection)
                THEN "CONFIRMED_CORRECTION"
                ELSE "BREAKOUT_WATCH"
           [] state \in {"CONFIRMED_IMPULSE", "CONFIRMED_CORRECTION"} ->
                "BREAKOUT_WATCH"
           [] state = "INVALIDATED_RESET" -> "WAITING"
           [] OTHER -> "WAITING"

\* determineNextState invalidating a watch whose label confirms nothing
determineNextState_invalidates(state, output) ==
    IF output.direction = "HOLD" THEN "WAITING"
    ELSE CASE state = "WAITING" -> "BREAKOUT_WATCH"
           [] state = "BREAKOUT_WATCH" ->
                IF includes(toLowerCase(output.scenario_label), WordImpulse)
                THEN "CONFIRMED_IMPULSE"
                ELSE IF includes(toLowerCase(output.scenario_label),
                                 WordCorrection)
                THEN "CONFIRMED_CORRECTION"
                ELSE "INVALIDATED_RESET"
           [] state \in {"CONFIRMED_IMPULSE", "CONFIRMED_CORRECTION"} -> state
           [] state = "INVALIDATED_RESET" -> "WAITING"
           [] OTHER -> "WAITING"

determineNextState(state, output) ==
    IF output.direction = "HOLD" THEN "WAITING"
    ELSE CASE state = "WAITING" -> "BREAKOUT_WATCH"
           [] state = "BREAKOUT_WATCH" ->
                IF includes(toLowerCase(output.scenario_label), WordImpulse)
                THEN "CONFIRMED_IMPULSE"
                ELSE IF includes(toLowerCase(output.scenario_label),
                                 WordCorrection)
                THEN "CONFIRMED_CORRECTION"
                ELSE "BREAKOUT_WATCH"
           [] state \in {"CONFIRMED_IMPULSE", "CONFIRMED_CORRECTION"} -> state
           [] state = "INVALIDATED_RESET" -> "WAITING"
           [] OTHER -> "WAITING"

\* Number.prototype.toFixed(2) of a number held in tenths
toFixed2(n) == ToString(n \div 10) \o "." \o ToString(n % 10) \o "0"

\* generateReasoning; the text is a sequence of sentences, the Korean wording
\* rendered in English
generateReasoning(gScore, mScore, selected) ==
    LET selectedScore == IF selected = "gpt" THEN gScore ELSE mScore
        otherScore == IF selected = "gpt" THEN mScore ELSE gScore
        selectedName == IF selected = "gpt" THEN "ChatGPT" ELSE "Gemini"
        otherName == IF selected = "gpt" THEN "Gemini" ELSE "ChatGPT"
        strength(flag, text) == IF flag THEN <<text>> ELSE <<>>
        strengths ==
            strength(selectedScore.invalidation_clarity = 2, "clear invalidation")
            \o strength(selectedScore.risk_reward = 2, "great risk/reward")
            \o strength(selectedScore.structure_simplicity = 2, "simple structure")
            \o strength(selectedScore.resolution_speed = 2, "quick resolution")
    IN <<"**" \o selectedName \o " selected!**">>
       \o (IF ~otherScore.rule_validity
           THEN <<otherName \o " violated a NEoWave rule.">> ELSE <<>>)
       \o <<"score " \o ToString(selectedScore.total_score) \o "/8 vs "
            \o ToString(otherScore.total_score) \o "/8.">>
       \o (IF Len(strengths) > 0 THEN <<"strengths:">> \o strengths ELSE <<>>)
       \o <<"stop distance "
            \o (IF selectedScore.stop_distance = None THEN "undefined"
                ELSE toFixed2(selectedScore.stop_distance[1])) \o "%">>

\* the score both proposals get in a general-chat exchange (no stop distance)
ChatScore(scenario) ==
    [scenario |-> scenario, rule_validity |-> TRUE, invalidation_clarity |-> 0,
     risk_reward |-> 0, structure_simplicity |-> 0, resolution_speed |-> 0,
     total_score |-> 0, stop_distance |-> None]

NotApplicable == <<"n/a">>

isGeneralChat(gptOut) == gptOut.scenario_label = GeneralChatLabel

\* a general-chat branch that answers the direction of the proposal the coin
\* picked
GeneralChatDecision_coinDirection(gptOut, geminiOut, symbol, timeframe, randomChoice) ==
    [symbol |-> symbol, timeframe |-> timeframe,
     decision |-> IF randomChoice = "gpt"
                  THEN gptOut.direction ELSE geminiOut.direction,
     entry_trigger |-> NotApplicable,
     invalidation |-> NotApplicable,
     risk_percent |-> 0,
     alternate_scenario |-> IF randomChoice = "gpt"
                            THEN geminiOut.scenario_label
                            ELSE gptOut.scenario_label,
     state |-> "WAITING",
     selected_scenario |-> randomChoice,
     judge_scores |-> [gpt |-> ChatScore("gpt"), gemini |-> ChatScore("gemini")],
     reasoning |-> IF randomChoice = "gpt"
                   THEN <<"ChatGPT selected!", "gpt explanation">>
                   ELSE <<"Gemini selected!", "gemini reasoning">>]

\* judgeScenarios, general-chat branch; randomChoice is the coin
GeneralChatDecision(gptOut, geminiOut, symbol, timeframe, randomChoice) ==
    [symbol |-> symbol, timeframe |-> timeframe,
     decision |-> "HOLD",
     entry_trigger |-> NotApplicable,
     invalidation |-> NotApplicable,
     risk_percent |-> 0,
     alternate_scenario |-> IF randomChoice = "gpt"
                            THEN geminiOut.scenario_label
                            ELSE gptOut.scenario_label,
     state |-> "WAITING",
     selected_scenario |-> randomChoice,
     judge_scores |-> [gpt |-> ChatScore("gpt"), gemini |-> ChatScore("gemini")],
     reasoning |-> IF randomChoice = "gpt"
                   THEN <<"ChatGPT selected!", "gpt explanation">>
                   ELSE <<"Gemini selected!", "gemini reasoning">>]

\* judgeScenarios with the risk percent taken from the other proposal
TradingDecision_otherRR(gptOut, geminiOut, symbol, timeframe, state, gScore, mScore) ==
    LET selectedScenario == selectBestScenario(gScore, mScore)
        selectedOutput == IF selectedScenario = "gpt" THEN gptOut ELSE geminiOut
        otherOutput == IF selectedScenario = "gpt" THEN geminiOut ELSE gptOut
        nextState == determineNextState(state, selectedOutput)
    IN [symbol |-> symbol, timeframe |-> timeframe,
        decision |-> selectedOutput.direction,
        entry_trigger |-> selectedOutput.confirmation_trigger,
        invalidation |-> selectedOutput.invalidation_level,
        risk_percent |-> calculateRiskPercent(otherOutput.risk_reward_estimate),
        alternate_scenario |-> IF selectedScenario = "gpt"
                               THEN geminiOut.scenario_label
                               ELSE gptOut.scenario_label,
        state |-> nextState,
        selected_scenario |-> selectedScenario,
        judge_scores |-> [gpt |-> gScore, gemini |-> mScore],
        reasoning |-> generateReasoning(gScore, mScore, selectedScenario)]

\* judgeScenarios, trading branch, from the two scores on (steps 2 to 4)
TradingDecision(gptOut, geminiOut, symbol, timeframe, state, gScore, mScore) ==
    LET selectedScenario == selectBestScenario(gScore, mScore)
        selectedOutput == IF selectedScenario = "gpt" THEN gptOut ELSE geminiOut
        nextState == determineNextState(state, selectedOutput)
    IN [symbol |-> symbol, timeframe |-> timeframe,
        decision |-> selectedOutput.direction,
        entry_trigger |-> selectedOutput.confirmation_trigger,
        invalidation |-> selectedOutput.invalidation_level,
        risk_percent |-> calculateRiskPercent(selectedOutput.risk_reward_estimate),
        alternate_scenario |-> IF selectedScenario = "gpt"
                               THEN geminiOut.scenario_label
                               ELSE gptOut.scenario_label,
        state |-> nextState,
        selected_scenario |-> selectedScenario,
        judge_scores |-> [gpt |-> gScore, gemini |-> mScore],
        reasoning |-> generateReasoning(gScore, mScore, selectedScenario)]

\* judgeScenarios; env holds what the function draws from outside: the
\* evaluator's two outcomes and the coin
judgeScenarios(gptOut, geminiOut, symbol, timeframe, state, env) ==
    IF isGeneralChat(gptOut)
    THEN GeneralChatDecision(gptOut, geminiOut, symbol, timeframe, env.randomChoice)
    ELSE TradingDecision(gptOut, geminiOut, symbol, timeframe, state,
                         scoreScenario("gpt", env.gptEval),
                         scoreScenario("gemini", env.geminiEval))

\* parseInt(process.env.MAX_CONCURRENT_POSITIONS || '3'), environment unset
maxPositions == 3
\* parseInt(process.env.CONSECUTIVE_LOSS_THRESHOLD || '3'), environment unset
maxLosses == 3
\* minRR = 1.5, in tenths
minRR == 15

\* checkRiskManagement testing the consecutive losses before the positions
checkRiskManagement_lossesFirst(decision, activePositions, consecutiveLosses) ==
    LET gptRR == decision.judge_scores.gpt.risk_reward
        geminiRR == decision.judge_scores.gemini.risk_reward
    IN IF consecutiveLosses >= maxLosses
       THEN [allowed |-> FALSE,
             reason |-> Some(ToString(maxLosses)
                             \o " consecutive losses - system paused")]
       ELSE IF activePositions >= maxPositions
       THEN [allowed |-> FALSE,
             reason |-> Some("Maximum concurrent positions ("
                             \o ToString(maxPositions) \o ") reached")]
       ELSE IF 10 * gptRR < minRR /\ 10 * geminiRR < minRR
       THEN [allowed |-> FALSE,
             reason |-> Some("Risk/Reward below minimum threshold (1.5)")]
       ELSE [allowed |-> TRUE, reason |-> None]

checkRiskManagement(decision, activePositions, consecutiveLosses) ==
    LET gptRR == decision.judge_scores.gpt.risk_reward
        geminiRR == decision.judge_scores.gemini.risk_reward
    IN IF activePositions >= maxPositions
       THEN [allowed |-> FALSE,
             reason |-> Some("Maximum concurrent positions ("
                             \o ToString(maxPositions) \o ") reached")]
       ELSE IF consecutiveLosses >= maxLosses
       THEN [allowed |-> FALSE,
             reason |-> Some(ToString(maxLosses)
                             \o " consecutive losses - system paused")]
       ELSE IF 10 * gptRR < minRR /\ 10 * geminiRR < minRR
       THEN [allowed |-> FALSE,
             reason |-> Some("Risk/Reward below minimum threshold (1.5)")]
       ELSE [allowed |-> TRUE, reason |-> None]

-----------------------------------------------------------------------------
(* Proposals (GPTOutput / GeminiAltOutput) *)

\* risk/reward estimates in tenths: 0, 0.5, 1.0, ... MaxRR
RREstimates == {5 * n : n \in 0..(2 * MaxRR)}

\* a proposal of the given provider; the trigger and invalidation texts are
\* opaque and only name their origin
Proposal(scenario, dir, label, rr) ==
    [direction |-> dir, scenario_label |-> label,
     confirmation_trigger |-> <<scenario, "trigger">>,
     invalidation_level |-> <<scenario, "invalidation">>,
     risk_reward_estimate |-> rr]

Proposals(scenario, labels, rrs) ==
    {Proposal(scenario, d, l, r) : d \in Directions, l \in labels, r \in rrs}

-----------------------------------------------------------------------------
(* POST /api/chat (src/app/api/chat/route.ts), one action per awaited step. *)
(* The required environment variables are taken to be set.                  *)

Set(f, r, v) == [f EXCEPT ![r] = v]

\* '분석 보류' and '분석 오류', the labels of Gemini's two fallback proposals
LabelOnHold == <<"U+BD84", "U+C11D", " ", "U+BCF4", "U+B958">>
LabelError == <<"U+BD84", "U+C11D", " ", "U+C624", "U+B958">>

\* analyzeAlternativeCount's answer when the model's reply has no JSON
\* (noJson) or when the call or the validation throws
GeminiFallback(gptOut, noJson) ==
    [direction |-> "HOLD",
     scenario_label |-> IF isGeneralChat(gptOut) THEN GeneralChatLabel
                        ELSE IF noJson THEN LabelOnHold ELSE LabelError,
     confirmation_trigger |-> NotApplicable,
     invalidation_level |-> NotApplicable,
     risk_reward_estimate |-> 0]

ErrorResponse(status, message) ==
    [status |-> status, error |-> Some(message), conversation_id |-> None,
     final_decision |-> None, risk_check |-> None, current_state |-> None]

OkResponse(cid, decision, check, state) ==
    [status |-> 200, error |-> None, conversation_id |-> Some(cid),
     final_decision |-> Some(decision), risk_check |-> Some(check),
     current_state |-> Some(state)]

ClearLocals(r) ==
    /\ body' = Set(body, r, None)
    /\ convId' = Set(convId, r, None)
    /\ currentState' = Set(currentState, r, None)
    /\ gptOutput' = Set(gptOutput, r, None)
    /\ geminiOutput' = Set(geminiOutput, r, None)
    /\ gptEval' = Set(gptEval, r, None)
    /\ geminiEval' = Set(geminiEval, r, None)
    /\ gptScore' = Set(gptScore, r, None)
    /\ finalDecision' = Set(finalDecision, r, None)
    /\ riskCheck' = Set(riskCheck, r, None)

\* the handler returns: its locals are gone, the response is out
Return(r, resp) ==
    /\ pc' = Set(pc, r, "idle")
    /\ response' = Set(response, r, Some(resp))
    /\ ClearLocals(r)

\* the JS test `!query` on an optional text: undefined and '' are falsy
Falsy(query) == query = None \/ query[1] = <<>>

\* the request bodies a client may send: query missing, empty or a text, no
\* conversation id or the id of an existing conversation
Bodies(symbols) ==
    [query : {None, Some(<<>>), Some(<<"?">>)},
     conversation_id : {None} \cup {Some(c) : c \in 1..conversations},
     symbol : symbols, timeframe : {"4H"}]

TripleOf(r) == <<convId[r][1], body[r][1].symbol, body[r][1].timeframe>>

\* route.ts:35-70 without the test of the query
Receive_noQueryCheck(r, symbols) ==
    /\ pc[r] = "idle"
    /\ runs' = Set(runs, r, None)
    /\ UNCHANGED <<conversations, trading_states, args, ret, machineVars>>
    /\ \/ Return(r, ErrorResponse(413, "bad body"))
       \/ \E b \in Bodies(symbols) :
            /\ body' = Set(body, r, Some(b))
            /\ convId' = Set(convId, r, b.conversation_id)
            /\ pc' = Set(pc, r, IF b.conversation_id = None
                                THEN "conversation" ELSE "rag")
            /\ response' = Set(response, r, None)
            /\ UNCHANGED <<currentState, gptOutput, geminiOutput, gptEval,
                           geminiEval, gptScore, finalDecision, riskCheck>>

\* route.ts:35-70: parse the body, reject a missing query
Receive(r, symbols) ==
    /\ pc[r] = "idle"
    /\ runs' = Set(runs, r, None)
    /\ UNCHANGED <<conversations, trading_states, args, ret, machineVars>>
    /\ \/ Return(r, ErrorResponse(413, "bad body"))
       \/ \E b \in Bodies(symbols) :
            IF Falsy(b.query)
            THEN Return(r, ErrorResponse(400, "Missing required field: query"))
            ELSE /\ body' = Set(body, r, Some(b))
                 /\ convId' = Set(convId, r, b.conversation_id)
                 /\ pc' = Set(pc, r, IF b.conversation_id = None
                                     THEN "conversation" ELSE "rag")
                 /\ response' = Set(response, r, None)
                 /\ UNCHANGED <<currentState, gptOutput, geminiOutput, gptEval,
                                geminiEval, gptScore, finalDecision, riskCheck>>

\* route.ts:72-92: create the conversation
CreateConversation(r) ==
    /\ pc[r] = "conversation"
    /\ UNCHANGED <<runs, trading_states, args, ret, machineVars>>
    /\ \/ /\ conversations < MaxConversations
          /\ conversations' = conversations + 1
          /\ convId' = Set(convId, r, Some(conversations + 1))
          /\ pc' = Set(pc, r, "rag")
          /\ UNCHANGED <<body, currentState, gptOutput, geminiOutput, gptEval,
                         geminiEval, gptScore, finalDecision, riskCheck,
                         response>>
       \/ /\ UNCHANGED conversations
          /\ Return(r, ErrorResponse(500, "Failed to create conversation"))

\* route.ts:94-103: searchKnowledge returns or throws
RagSearch(r) ==
    /\ pc[r] = "rag"
    /\ UNCHANGED <<runs, conversations, trading_states, args, ret, machineVars>>
    /\ \/ /\ pc' = Set(pc, r, "load")
          /\ UNCHANGED <<localVars, response>>
       \/ Return(r, ErrorResponse(500, "Internal server error"))

\* loadStateMachine, route.ts:105-110: no row or a failed read give a fresh
\* machine in WAITING; readOutcomes says whether the read may fail
LoadState(r, readOutcomes) ==
    /\ pc[r] = "load"
    /\ \E readFails \in readOutcomes :
         currentState' = Set(currentState, r,
            IF readFails \/ TripleOf(r) \notin DOMAIN trading_states
            THEN Some("WAITING")
            ELSE Some(trading_states[TripleOf(r)].current_state))
    /\ pc' = Set(pc, r, "gpt")
    /\ UNCHANGED <<body, convId, gptOutput, geminiOutput, gptEval, geminiEval,
                   gptScore, finalDecision, riskCheck, response, runs,
                   conversations, trading_states, args, ret, machineVars>>

\* route.ts:112-119: analyzePrimaryCount returns a validated proposal or throws
AnalyzeGPT(r, proposals) ==
    /\ pc[r] = "gpt"
    /\ UNCHANGED <<runs, conversations, trading_states, args, ret, machineVars>>
    /\ \/ \E o \in proposals :
            /\ gptOutput' = Set(gptOutput, r, Some(o))
            /\ pc' = Set(pc, r, "gemini")
            /\ UNCHANGED <<body, convId, currentState, geminiOutput, gptEval,
                           geminiEval, gptScore, finalDecision, riskCheck,
                           response>>
       \/ Return(r, ErrorResponse(500, "Internal server error"))

\* route.ts:121-129 with an analyzeAlternativeCount that throws on a failure
AnalyzeGemini_aborts(r, proposals) ==
    /\ pc[r] = "gemini"
    /\ UNCHANGED <<runs, conversations, trading_states, args, ret, machineVars>>
    /\ \/ \E o \in proposals :
            /\ geminiOutput' = Set(geminiOutput, r, Some(o))
            /\ pc' = Set(pc, r, "judge")
            /\ UNCHANGED <<body, convId, currentState, gptOutput, gptEval,
                           geminiEval, gptScore, finalDecision, riskCheck,
                           response>>
       \/ Return(r, ErrorResponse(500, "Internal server error"))

\* route.ts:121-129: analyzeAlternativeCount never throws
AnalyzeGemini(r, proposals) ==
    /\ pc[r] = "gemini"
    /\ \E o \in proposals \cup {GeminiFallback(gptOutput[r][1], TRUE),
                                GeminiFallback(gptOutput[r][1], FALSE)} :
         geminiOutput' = Set(geminiOutput, r, Some(o))
    /\ pc' = Set(pc, r, "judge")
    /\ UNCHANGED <<body, convId, currentState, gptOutput, gptEval, geminiEval,
                   gptScore, finalDecision, riskCheck, response, runs,
                   conversations, trading_states, args, ret, machineVars>>

\* judgeScenarios on a general-chat exchange (judge/index.ts:18-44)
JudgeGeneralChat(r) ==
    /\ pc[r] = "judge"
    /\ isGeneralChat(gptOutput[r][1])
    /\ \E randomChoice \in Scenarios :
         finalDecision' = Set(finalDecision, r,
            Some(GeneralChatDecision(gptOutput[r][1], geminiOutput[r][1],
                                     body[r][1].symbol, body[r][1].timeframe,
                                     randomChoice)))
    /\ pc' = Set(pc, r, "risk")
    /\ UNCHANGED <<body, convId, currentState, gptOutput, geminiOutput, gptEval,
                   geminiEval, gptScore, riskCheck, response, runs,
                   conversations, trading_states, args, ret, machineVars>>

\* judgeScenarios, step 1 for proposal 'gpt' (judge/index.ts:48)
ScoreGpt(r, outcomes) ==
    /\ pc[r] = "judge"
    /\ ~isGeneralChat(gptOutput[r][1])
    /\ \E o \in outcomes :
         /\ gptEval' = Set(gptEval, r, Some(o))
         /\ gptScore' = Set(gptScore, r, Some(scoreScenario("gpt", o)))
    /\ pc' = Set(pc, r, "score_gemini")
    /\ UNCHANGED <<body, convId, currentState, gptOutput, geminiOutput,
                   geminiEval, finalDecision, riskCheck, response, runs,
                   conversations, trading_states, args, ret, machineVars>>

\* judgeScenarios, step 1 for proposal 'gemini' and steps 2 to 4
\* (judge/index.ts:49-78)
ScoreGemini(r, outcomes) ==
    /\ pc[r] = "score_gemini"
    /\ \E o \in outcomes :
         /\ geminiEval' = Set(geminiEval, r, Some(o))
         /\ finalDecision' = Set(finalDecision, r,
              Some(TradingDecision(gptOutput[r][1], geminiOutput[r][1],
                                   body[r][1].symbol, body[r][1].timeframe,
                                   currentState[r][1], gptScore[r][1],
                                   scoreScenario("gemini", o))))
    /\ pc' = Set(pc, r, "risk")
    /\ UNCHANGED <<body, convId, currentState, gptOutput, geminiOutput, gptEval,
                   gptScore, riskCheck, response, runs, conversations,
                   trading_states, args, ret, machineVars>>

\* the risk_tracking row of the user, or no row
RiskRows(counts) ==
    {None} \cup {Some(row) : row \in [active_positions : counts,
                                       consecutive_losses : counts]}

\* route.ts:155-159 with the direction left as the selector set it
ApplyRiskOverride_reasonOnly(decision, check) ==
    IF ~check.allowed
    THEN [decision EXCEPT
            !.reasoning = Append(@, "[Risk Override: " \o check.reason[1] \o "]")]
    ELSE decision

\* route.ts:155-159 with the state put back to WAITING with the direction
ApplyRiskOverride_resetsState(decision, check) ==
    IF ~check.allowed
    THEN [decision EXCEPT
            !.decision = "HOLD",
            !.state = "WAITING",
            !.reasoning = Append(@, "[Risk Override: " \o check.reason[1] \o "]")]
    ELSE decision

\* route.ts:155-159
ApplyRiskOverride(decision, check) ==
    IF ~check.allowed
    THEN [decision EXCEPT
            !.decision = "HOLD",
            !.reasoning = Append(@, "[Risk Override: " \o check.reason[1] \o "]")]
    ELSE decision

\* route.ts:142-159: read the user's risk row, run the gate, apply the override
RiskCheck(r, riskRows) ==
    /\ pc[r] = "risk"
    /\ \E riskData \in riskRows :
         LET active == IF riskData = None THEN 0 ELSE riskData[1].active_positions
             losses == IF riskData = None THEN 0 ELSE riskData[1].consecutive_losses
             check == checkRiskManagement(finalDecision[r][1], active, losses)
         IN /\ riskCheck' = Set(riskCheck, r, Some(check))
            /\ finalDecision' = Set(finalDecision, r,
                 Some(ApplyRiskOverride(finalDecision[r][1], check)))
    /\ pc' = Set(pc, r, "insert")
    /\ UNCHANGED <<body, convId, currentState, gptOutput, geminiOutput, gptEval,
                   geminiEval, gptScore, response, runs, conversations,
                   trading_states, args, ret, machineVars>>

\* route.ts:161-184: insert the run; a failed insert is only logged
InsertRun(r) ==
    /\ pc[r] = "insert"
    /\ \/ runs' = Set(runs, r, Some([conversation_id |-> convId[r][1],
                                     gpt_output |-> gptOutput[r][1],
                                     gemini_alt |-> geminiOutput[r][1],
                                     final_decision |-> finalDecision[r][1]]))
       \/ UNCHANGED runs
    /\ pc' = Set(pc, r, "save")
    /\ UNCHANGED <<localVars, response, conversations, trading_states, args, ret, machineVars>>

\* TradingStateMachine.transition: no check against getPossibleTransitions
transition(machineState, nextState) == nextState

\* an upsert that conflicts on the conversation alone
Upsert_byConversation(table, key, row) ==
    [k \in DOMAIN table \cup {key} |->
        IF k = key \/ k[1] = key[1] THEN row ELSE table[k]]

\* the upsert of saveStateMachine, keyed on the triple; of a row the model
\* keeps the column current_state
Upsert(table, key, row) ==
    [k \in DOMAIN table \cup {key} |-> IF k = key THEN row ELSE table[k]]

\* route.ts:186-221 with a saveStateMachine that only logs a failed upsert
SaveState_logsOnly(r) ==
    /\ pc[r] = "save"
    /\ UNCHANGED <<runs, conversations, args, ret, machineVars>>
    /\ \/ trading_states' =
               Upsert(trading_states, TripleOf(r),
                      [current_state |-> finalDecision[r][1].state])
       \/ UNCHANGED trading_states
    /\ Return(r, OkResponse(convId[r][1], finalDecision[r][1],
                            riskCheck[r][1],
                            transition(currentState[r][1],
                                       finalDecision[r][1].state)))

\* route.ts:186-221 with an upsert that leaves a row alone which is not in the
\* state the cycle loaded
SaveState_keepsNewerRow(r) ==
    /\ pc[r] = "save"
    /\ UNCHANGED <<runs, conversations, args, ret, machineVars>>
    /\ \/ /\ trading_states' =
               IF /\ TripleOf(r) \in DOMAIN trading_states
                  /\ trading_states[TripleOf(r)].current_state
                        /= currentState[r][1]
               THEN trading_states
               ELSE Upsert(trading_states, TripleOf(r),
                           [current_state |-> finalDecision[r][1].state])
          /\ Return(r, OkResponse(convId[r][1], finalDecision[r][1],
                                  riskCheck[r][1],
                                  transition(currentState[r][1],
                                             finalDecision[r][1].state)))
       \/ /\ UNCHANGED trading_states
          /\ Return(r, ErrorResponse(500, "Internal server error"))

\* route.ts:186-221: transition, saveStateMachine, respond; a failed upsert
\* throws and ends in the handler's catch
SaveState(r) ==
    /\ pc[r] = "save"
    /\ UNCHANGED <<runs, conversations, args, ret, machineVars>>
    /\ \/ /\ trading_states' =
               Upsert(trading_states, TripleOf(r),
                      [current_state |-> finalDecision[r][1].state])
          /\ Return(r, OkResponse(convId[r][1], finalDecision[r][1],
                                  riskCheck[r][1],
                                  transition(currentState[r][1],
                                             finalDecision[r][1].state)))
       \/ /\ UNCHANGED trading_states
          /\ Return(r, ErrorResponse(500, "Internal server error"))

-----------------------------------------------------------------------------
(* TradingStateMachine (lib/state-machine), one object and its timers.  Of  *)
(* a history entry the model keeps the state; the timestamp of the latest  *)
(* entry, which getStateDuration reads, is kept in `since`.                *)

\* the delay of the auto-recovery timer: 5000 ms, in seconds
Cooldown == 5

\* new TradingStateMachine(initialState) at time t
NewMachine(initialState, t) ==
    [currentState |-> initialState, history |-> <<initialState>>, since |-> t]

\* m.transition(nextState, trigger) at time t
Transitioned(m, nextState, t) ==
    [currentState |-> transition(m.currentState, nextState),
     history |-> Append(m.history, nextState),
     since |-> t]

\* getPossibleTransitions() of a machine in the given state
getPossibleTransitions(state) ==
    CASE state = "WAITING" -> {"BREAKOUT_WATCH", "INVALIDATED_RESET"}
      [] state = "BREAKOUT_WATCH" ->
            {"CONFIRMED_IMPULSE", "CONFIRMED_CORRECTION", "WAITING",
             "INVALIDATED_RESET"}
      [] state \in {"CONFIRMED_IMPULSE", "CONFIRMED_CORRECTION"} ->
            {"WAITING", "INVALIDATED_RESET"}
      [] state = "INVALIDATED_RESET" -> {"WAITING"}
      [] OTHER -> {"WAITING"}

\* no machine under study: a fresh one, no timer, the clock at 0
MachineIdle ==
    /\ machine = NewMachine("WAITING", 0)
    /\ timers = {}
    /\ now = 0

\* an explicit call of transition()
MachineTransition ==
    /\ Len(machine.history) < MaxHistory
    /\ \E nextState \in TradingStates :
         machine' = Transitioned(machine, nextState, now)
    /\ UNCHANGED <<timers, now, args, ret, cycleVars>>

\* reset()
MachineReset ==
    /\ Len(machine.history) < MaxHistory
    /\ machine' = Transitioned(machine, "WAITING", now)
    /\ UNCHANGED <<timers, now, args, ret, cycleVars>>

\* invalidate(): the transition and a timer armed for now + 5000 ms
MachineInvalidate ==
    /\ Len(machine.history) < MaxHistory
    /\ now + Cooldown <= MaxTime
    /\ machine' = Transitioned(machine, "INVALIDATED_RESET", now)
    /\ timers' = timers \cup {now + Cooldown}
    /\ UNCHANGED <<now, args, ret, cycleVars>>

\* the callback of a timer whose delay has passed
TimerFire ==
    /\ \E deadline \in timers :
         /\ deadline <= now
         /\ timers' = timers \ {deadline}
    /\ machine' = IF machine.currentState = "INVALIDATED_RESET"
                  THEN Transitioned(machine, "WAITING", now)
                  ELSE machine
    /\ UNCHANGED <<now, args, ret, cycleVars>>

\* a second passes
Tick ==
    /\ now < MaxTime
    /\ now' = now + 1
    /\ UNCHANGED <<machine, timers, args, ret, cycleVars>>

-----------------------------------------------------------------------------
(* The cycle: one handler at a time, requests one after another *)

Requests == {1}

CycleSymbols == {"BTCUSDT"}

\* the proposals and evaluator answers the cycle is run on: every
\* direction, the general-chat marker and three kinds of trading label, a
\* high and a low estimate, and for the evaluator each rule verdict with a
\* risk/reward sub-score on either side of the gate's threshold
CycleGptProposals ==
    Proposals("gpt", {GeneralChatLabel, LabelImpulse, LabelCorrection, LabelTriangle},
              {30})

\* the cycle tests a direction against 'HOLD' only: SHORT comes from provider A
CycleGeminiProposals ==
    {p \in Proposals("gemini", {LabelImpulse, LabelTriangle}, {10}) :
        p.direction \in {"LONG", "HOLD"}}

CycleEvalOutcomes ==
    {[kind |-> k, scores |-> NoScores] : k \in {"throw", "bad_json"}}
    \cup {[kind |-> "ok", scores |-> s] :
            s \in [rule_validity : BOOLEAN, invalidation_clarity : {1},
                   risk_reward : {0, 2}, structure_simplicity : {1},
                   resolution_speed : {1}, stop_distance : {Some(10)}]}

CycleRiskRows == RiskRows({0, maxPositions})

CycleInit(requests) ==
    /\ pc = [r \in requests |-> "idle"]
    /\ body = [r \in requests |-> None]
    /\ convId = [r \in requests |-> None]
    /\ currentState = [r \in requests |-> None]
    /\ gptOutput = [r \in requests |-> None]
    /\ geminiOutput = [r \in requests |-> None]
    /\ gptEval = [r \in requests |-> None]
    /\ geminiEval = [r \in requests |-> None]
    /\ gptScore = [r \in requests |-> None]
    /\ finalDecision = [r \in requests |-> None]
    /\ riskCheck = [r \in requests |-> None]
    /\ response = [r \in requests |-> None]
    /\ runs = [r \in requests |-> None]
    /\ conversations = 0
    /\ trading_states = <<>>

CycleIdle == CycleInit(Requests)

Init ==
    /\ args = None
    /\ ret = None
    /\ CycleInit(Requests)
    /\ MachineIdle

Next ==
    \E r \in Requests :
        \/ Receive(r, CycleSymbols)
        \/ CreateConversation(r)
        \/ RagSearch(r)
        \/ LoadState(r, BOOLEAN)
        \/ AnalyzeGPT(r, CycleGptProposals)
        \/ AnalyzeGemini(r, CycleGeminiProposals)
        \/ JudgeGeneralChat(r)
        \/ ScoreGpt(r, CycleEvalOutcomes)
        \/ ScoreGemini(r, CycleEvalOutcomes)
        \/ RiskCheck(r, CycleRiskRows)
        \/ InsertRun(r)
        \/ SaveState(r)

Spec == Init /\ [][Next]_vars

-----------------------------------------------------------------------------
(* Two handlers at a time: the awaited steps of two requests interleave.   *)
(* The reads succeed, the evaluator answers, the user has no risk row, so  *)
(* that what the two cycles do to each other is all that varies.           *)

RaceRequests == {1, 2}

RaceGptProposals ==
    {Proposal("gpt", "LONG", LabelImpulse, 30),
     Proposal("gpt", "HOLD", LabelImpulse, 30)}

\* provider B answers with one of its two placeholders only: with equal
\* scores the selector takes 'gpt' whatever provider B proposes
RaceGeminiProposals == {}

\* both proposals are scored 5 at the same stop distance
RaceEvalOutcomes ==
    {[kind |-> "ok",
      scores |-> [rule_validity |-> TRUE, invalidation_clarity |-> 1,
                  risk_reward |-> 2, structure_simplicity |-> 1,
                  resolution_speed |-> 1, stop_distance |-> Some(10)]]}

InitRace ==
    /\ args = None
    /\ ret = None
    /\ CycleInit(RaceRequests)
    /\ MachineIdle

NextRace ==
    \E r \in RaceRequests :
        \/ Receive(r, CycleSymbols)
        \/ CreateConversation(r)
        \/ RagSearch(r)
        \/ LoadState(r, {FALSE})
        \/ AnalyzeGPT(r, RaceGptProposals)
        \/ AnalyzeGemini(r, RaceGeminiProposals)
        \/ ScoreGpt(r, RaceEvalOutcomes)
        \/ ScoreGemini(r, RaceEvalOutcomes)
        \/ RiskCheck(r, {None})
        \/ InsertRun(r)
        \/ SaveState(r)

SpecRace == InitRace /\ [][NextRace]_vars

(* Two handlers at a time on different triples: request 1 asks about one   *)
(* symbol, request 2 about another, in the same conversation or not.       *)

PairSymbol(r) == IF r = 1 THEN "BTCUSDT" ELSE "ETHUSDT"

\* provider A on the first symbol goes long or holds, on the second it goes
\* long: the first triple moves forward and back, the second forward
PairGptProposals(r) ==
    IF r = 1 THEN RaceGptProposals
    ELSE {Proposal("gpt", "LONG", LabelImpulse, 30)}

NextPair ==
    \E r \in RaceRequests :
        \/ Receive(r, {PairSymbol(r)})
        \/ CreateConversation(r)
        \/ RagSearch(r)
        \/ LoadState(r, {FALSE})
        \/ AnalyzeGPT(r, PairGptProposals(r))
        \/ AnalyzeGemini(r, RaceGeminiProposals)
        \/ ScoreGpt(r, RaceEvalOutcomes)
        \/ ScoreGemini(r, RaceEvalOutcomes)
        \/ RiskCheck(r, {None})
        \/ InsertRun(r)
        \/ SaveState(r)

SpecPair == InitRace /\ [][NextPair]_vars

-----------------------------------------------------------------------------
(* One TradingStateMachine, its callers and its timers *)

\* a machine as the constructor leaves it: loadStateMachine builds it on the
\* state of the row, the handler on WAITING
InitMachine ==
    /\ args = None
    /\ ret = None
    /\ CycleIdle
    /\ \E initialState \in TradingStates : machine = NewMachine(initialState, 0)
    /\ timers = {}
    /\ now = 0

NextMachine ==
    \/ MachineTransition
    \/ MachineReset
    \/ MachineInvalidate
    \/ TimerFire
    \/ Tick

SpecMachine == InitMachine /\ [][NextMachine]_vars

\* timers run when due and time passes
SpecMachineFair ==
    SpecMachine /\ WF_vars(TimerFire) /\ WF_vars(Tick)

-----------------------------------------------------------------------------
(* Harness for the pure functions of the judge *)

\* The selector reads rule_validity, total_score and stop_distance only, so
\* two of the four sub-scores take every value and two take the extremes:
\* every total of 0..4*MaxSubScore still occurs with every validity and stop.
JudgeScores(scenario) ==
    {scoreScenario(scenario, o) :
        o \in {e \in EvalOutcomes(0..MaxSubScore, StopDistances) :
                  /\ e.scores.structure_simplicity \in {0, MaxSubScore}
                  /\ e.scores.resolution_speed \in {0, MaxSubScore}}}

\* a score handed to the selector under another tag
Retag(score, scenario) == [score EXCEPT !.scenario = scenario]

(* selectBestScenario(x, y), then selectBestScenario(y, x) *)
InitSelect ==
    /\ args \in JudgeScores("gpt") \X JudgeScores("gemini")
    /\ ret = None
    /\ CycleIdle
    /\ MachineIdle

CallSelect ==
    /\ Len(ret) = 0
    /\ ret' = Some(selectBestScenario(args[1], args[2]))
    /\ UNCHANGED <<args, cycleVars, machineVars>>

CallSelectSwapped ==
    /\ Len(ret) = 1
    /\ ret' = Append(ret, selectBestScenario(Retag(args[2], "gpt"),
                                             Retag(args[1], "gemini")))
    /\ UNCHANGED <<args, cycleVars, machineVars>>

NextSelect == CallSelect \/ CallSelectSwapped

SpecSelect == InitSelect /\ [][NextSelect]_vars

(* scoreScenario(scenario, evaluator outcome) *)
InitScore ==
    /\ args \in Scenarios \X EvalOutcomes(0..MaxSubScore, StopDistances)
    /\ ret = None
    /\ CycleIdle
    /\ MachineIdle

CallScore ==
    /\ Len(ret) = 0
    /\ ret' = Some(scoreScenario(args[1], args[2]))
    /\ UNCHANGED <<args, cycleVars, machineVars>>

NextScore == CallScore

SpecScore == InitScore /\ [][NextScore]_vars

\* the top of the rubric in the evaluator's prompt ("0-2 points each")
RubricMax == 2

\* JSON.parse takes any number the evaluator wrote: one below and one above
\* the rubric stand for the answers outside it
RawSubScores == (0 - 1)..(RubricMax + 1)

(* scoreScenario on answers that need not follow the rubric *)
InitScoreRaw ==
    /\ args \in Scenarios \X EvalOutcomes(RawSubScores, {None, Some(10)})
    /\ ret = None
    /\ CycleIdle
    /\ MachineIdle

SpecScoreRaw == InitScoreRaw /\ [][NextScore]_vars

(* determineNextState(currentState, winning proposal) *)
InitNextState ==
    /\ args \in TradingStates \X Proposals("gpt", Labels, RREstimates)
    /\ ret = None
    /\ CycleIdle
    /\ MachineIdle

CallNextState ==
    /\ Len(ret) = 0
    /\ ret' = Some(determineNextState(args[1], args[2]))
    /\ UNCHANGED <<args, cycleVars, machineVars>>

NextNextState == CallNextState

SpecNextState == InitNextState /\ [][NextNextState]_vars

(* judgeScenarios(gptOutput, geminiOutput, ..., currentState) *)
JudgeProposals(scenario) ==
    Proposals(scenario, {GeneralChatLabel, LabelImpulse}, RREstimates)

JudgeEnvs ==
    [gptEval : CycleEvalOutcomes, geminiEval : CycleEvalOutcomes,
     randomChoice : Scenarios]

InitJudge ==
    /\ args \in JudgeProposals("gpt") \X JudgeProposals("gemini")
                \X {"WAITING", "BREAKOUT_WATCH"} \X JudgeEnvs
    /\ ret = None
    /\ CycleIdle
    /\ MachineIdle

CallJudge ==
    /\ Len(ret) = 0
    /\ ret' = Some(judgeScenarios(args[1], args[2], "BTCUSDT", "4H", args[3],
                                  args[4]))
    /\ UNCHANGED <<args, cycleVars, machineVars>>

NextJudge == CallJudge

SpecJudge == InitJudge /\ [][NextJudge]_vars

(* checkRiskManagement(decision, activePositions, consecutiveLosses) *)

\* the evaluator's outcomes the decisions are built on: a failure, and an
\* answer for each risk/reward sub-score
RiskEvalOutcomes ==
    {[kind |-> "throw", scores |-> NoScores]}
    \cup {[kind |-> "ok", scores |-> s] :
            s \in [rule_validity : {TRUE}, invalidation_clarity : {1},
                   risk_reward : 0..MaxSubScore, structure_simplicity : {1},
                   resolution_speed : {1}, stop_distance : {Some(10)}]}

\* decisions of judgeScenarios: a chat exchange and trading exchanges
RiskDecisions ==
    {judgeScenarios(g, Proposal("gemini", "SHORT", LabelTriangle, 10),
                    "BTCUSDT", "4H", "WAITING",
                    [gptEval |-> ge, geminiEval |-> me, randomChoice |-> "gpt"]) :
        g \in {Proposal("gpt", "LONG", LabelImpulse, 30),
               Proposal("gpt", "HOLD", GeneralChatLabel, 0)},
        ge \in RiskEvalOutcomes, me \in RiskEvalOutcomes}

\* the counters of a risk_tracking row, up to one past the limits
RiskCounts == 0..(maxPositions + 1)

InitRisk ==
    /\ args \in RiskDecisions \X RiskCounts \X RiskCounts
    /\ ret = None
    /\ CycleIdle
    /\ MachineIdle

CallRisk ==
    /\ Len(ret) = 0
    /\ ret' = Some(checkRiskManagement(args[1], args[2], args[3]))
    /\ UNCHANGED <<args, cycleVars, machineVars>>

NextRisk == CallRisk

SpecRisk == InitRisk /\ [][NextRisk]_vars

-----------------------------------------------------------------------------
(* src/lib/rag/search.ts.  A knowledge chunk is its id, its chunk_type and  *)
(* its similarity to the query in tenths; the store is the sequence in     *)
(* which match_knowledge_chunks orders the chunks for the query (nearest   *)
(* first, ties as the database resolves them).  Similarities are 0.9 and   *)
(* 0.8, above the threshold, and 0.6, below it.                            *)

ChunkTypes == {"rule", "exception", "definition"}

\* matchThreshold = 0.7, in tenths
matchThreshold == 7

\* the score given to a keyword-only match, 0.5, in tenths
keywordScore == 5

Min(a, b) == IF a < b THEN a ELSE b

\* Array.prototype.slice(0, n)
slice(s, n) == SubSeq(s, 1, Min(n, Len(s)))

\* the stores of n chunks: ids 1..n, nearest first; the first `high` chunks
\* at similarity 0.9, the next `mid` at 0.8, the rest at 0.6
StoresOf(n, types) ==
    {[i \in 1..n |->
        [id |-> i, chunk_type |-> ty[i],
         similarity |-> IF i <= cut[1] THEN 9 ELSE IF i <= cut[2] THEN 8 ELSE 6]] :
        ty \in [1..n -> types],
        cut \in {c \in (0..n) \X (0..n) : c[1] <= c[2]}}

Stores(types) == UNION {StoresOf(n, types) : n \in 0..MaxChunks}

\* the SQL function match_knowledge_chunks: above the threshold, nearest
\* first, at most match_count rows
match_knowledge_chunks(store, match_threshold, match_count) ==
    LET Above(chunk) == chunk.similarity > match_threshold
    IN slice(SelectSeq(store, Above), match_count)

\* searchKnowledge without a document filter; chunkType is None or Some(type).
\* The result when the embedding and the rpc succeed.
searchKnowledge(store, topK, chunkType) ==
    LET data == match_knowledge_chunks(store, matchThreshold, topK * 2)
        OfType(chunk) == chunkType = None \/ chunk.chunk_type = chunkType[1]
        chunks == slice(SelectSeq(data, OfType), topK)
    IN [chunks |-> [i \in 1..Len(chunks) |->
                       [id |-> chunks[i].id, chunk_type |-> chunks[i].chunk_type]],
        similarity_scores |-> [i \in 1..Len(chunks) |-> chunks[i].similarity],
        total_retrieved |-> Len(chunks)]

\* prioritySearch with half of topK given to the rules and a quarter each to
\* the exceptions and the definitions
prioritySearch_evenSplit(store, topK) ==
    LET rules == searchKnowledge(store, topK \div 2, Some("rule"))
        exceptions == searchKnowledge(store, topK \div 2, Some("exception"))
        definitions == searchKnowledge(store, topK \div 2, Some("definition"))
        allChunks == rules.chunks \o exceptions.chunks \o definitions.chunks
        allScores == rules.similarity_scores \o exceptions.similarity_scores
                     \o definitions.similarity_scores
    IN [chunks |-> slice(allChunks, topK),
        similarity_scores |-> slice(allScores, topK),
        total_retrieved |-> Len(allChunks)]

\* prioritySearch for a topK that 4 divides (topK / 2 and topK / 4 are whole)
prioritySearch(store, topK) ==
    LET rules == searchKnowledge(store, topK \div 2, Some("rule"))
        exceptions == searchKnowledge(store, topK \div 4, Some("exception"))
        definitions == searchKnowledge(store, topK \div 4, Some("definition"))
        allChunks == rules.chunks \o exceptions.chunks \o definitions.chunks
        allScores == rules.similarity_scores \o exceptions.similarity_scores
                     \o definitions.similarity_scores
    IN [chunks |-> slice(allChunks, topK),
        similarity_scores |-> slice(allScores, topK),
        total_retrieved |-> Len(allChunks)]

\* Array.prototype.sort, which is stable, with the comparator of
\* hybridSearch: higher score first
RECURSIVE InsertByScore(_, _, _)
InsertByScore(sorted, x, scores) ==
    IF sorted = <<>> THEN <<x>>
    ELSE IF scores[Head(sorted)] >= scores[x]
         THEN <<Head(sorted)>> \o InsertByScore(Tail(sorted), x, scores)
         ELSE <<x>> \o sorted

RECURSIVE sortByScore(_, _)
sortByScore(ids, scores) ==
    IF ids = <<>> THEN <<>>
    ELSE InsertByScore(sortByScore(SubSeq(ids, 1, Len(ids) - 1), scores),
                       ids[Len(ids)], scores)

Range(s) == {s[i] : i \in DOMAIN s}

\* the keys of the Map after the two forEach loops, in insertion order
CombinedIds(vectorIds, keywordIds) ==
    LET New(id) == id \notin Range(vectorIds)
    IN vectorIds \o SelectSeq(keywordIds, New)

\* hybridSearch with the keyword score written over the vector score
hybridSearch_keywordWins(store, topK, keywordData) ==
    LET vectorResults == searchKnowledge(store, topK, None)
        vectorIds == [i \in 1..Len(vectorResults.chunks) |->
                         vectorResults.chunks[i].id]
        keywordIds == IF keywordData = None THEN <<>> ELSE keywordData[1]
        combined == CombinedIds(vectorIds, keywordIds)
        scores == [id \in Range(combined) |->
                     IF id \in Range(keywordIds)
                     THEN keywordScore
                     ELSE vectorResults.similarity_scores[
                              CHOOSE i \in DOMAIN vectorIds : vectorIds[i] = id]]
        sortedEntries == slice(sortByScore(combined, scores), topK)
    IN [chunks |-> [i \in 1..Len(sortedEntries) |->
                       [id |-> sortedEntries[i],
                        chunk_type |-> store[sortedEntries[i]].chunk_type]],
        similarity_scores |-> [i \in 1..Len(sortedEntries) |->
                                  scores[sortedEntries[i]]],
        total_retrieved |-> Len(sortedEntries)]

\* hybridSearch; keywordData is the data of the text search: None when it
\* failed (the error is not read), else the ids of the rows it returned
hybridSearch(store, topK, keywordData) ==
    LET vectorResults == searchKnowledge(store, topK, None)
        vectorIds == [i \in 1..Len(vectorResults.chunks) |->
                         vectorResults.chunks[i].id]
        keywordIds == IF keywordData = None THEN <<>> ELSE keywordData[1]
        combined == CombinedIds(vectorIds, keywordIds)
        scores == [id \in Range(combined) |->
                     IF id \in Range(vectorIds)
                     THEN vectorResults.similarity_scores[
                              CHOOSE i \in DOMAIN vectorIds : vectorIds[i] = id]
                     ELSE keywordScore]
        sortedEntries == slice(sortByScore(combined, scores), topK)
    IN [chunks |-> [i \in 1..Len(sortedEntries) |->
                       [id |-> sortedEntries[i],
                        chunk_type |-> store[sortedEntries[i]].chunk_type]],
        similarity_scores |-> [i \in 1..Len(sortedEntries) |->
                                  scores[sortedEntries[i]]],
        total_retrieved |-> Len(sortedEntries)]

-----------------------------------------------------------------------------
(* Harness for the retrieval functions *)

\* the values of topK that 4 divides, up to the default 8
PriorityTopKs == {4, 8}

(* prioritySearch(query, topK) on a store; a failed embedding or rpc throws *)
InitPriority ==
    /\ args \in Stores(ChunkTypes) \X PriorityTopKs
    /\ ret = None
    /\ CycleIdle
    /\ MachineIdle

CallPriority ==
    /\ Len(ret) = 0
    /\ \/ ret' = Some([kind |-> "ok",
                       context |-> Some(prioritySearch(args[1], args[2]))])
       \/ ret' = Some([kind |-> "throw", context |-> None])
    /\ UNCHANGED <<args, cycleVars, machineVars>>

NextPriority == CallPriority

SpecPriority == InitPriority /\ [][NextPriority]_vars

HybridTopKs == {2, 4}

\* the rows a text search on the store may return: any set of chunks, in
\* the order of the table or against it, cut at the limit
KeywordResults(store, limit) ==
    LET n == Len(store)
        Ascending(ids) == SelectSeq([i \in 1..n |-> i], LAMBDA i : i \in ids)
        Descending(ids) == SelectSeq([i \in 1..n |-> n + 1 - i], LAMBDA i : i \in ids)
    IN {slice(Ascending(ids), limit) : ids \in SUBSET (1..n)}
       \cup {slice(Descending(ids), limit) : ids \in SUBSET (1..n)}

(* hybridSearch(query, topK) on a store and a text search *)
InitHybrid ==
    /\ \E store \in Stores({"rule"}), topK \in HybridTopKs :
         \E keywordData \in {None} \cup {Some(k) : k \in KeywordResults(store, topK)} :
            args = <<store, topK, keywordData>>
    /\ ret = None
    /\ CycleIdle
    /\ MachineIdle

CallHybrid ==
    /\ Len(ret) = 0
    /\ \/ ret' = Some([kind |-> "ok",
                       context |-> Some(hybridSearch(args[1], args[2], args[3]))])
       \/ ret' = Some([kind |-> "throw", context |-> None])
    /\ UNCHANGED <<args, cycleVars, machineVars>>

NextHybrid == CallHybrid

SpecHybrid == InitHybrid /\ [][NextHybrid]_vars

-----------------------------------------------------------------------------
(* Claims about selectBestScenario, under SpecSelect *)

SelA == args[1]
SelB == args[2]
BothValid == SelA.rule_validity /\ SelB.rule_validity
TotalGap == Abs(SelA.total_score - SelB.total_score)

\* stop distance x is smaller than stop distance y, an absent one being
\* larger than any supplied one
StopSmaller(x, y) == x /= None /\ (y = None \/ x[1] < y[1])

\* the stop distance the selector compares
EffectiveStop(score) == OrElse(score.stop_distance, MissingStop)

\* C2: the selector never prefers a rule-invalid score to a rule-valid one,
\* and on a double failure it answers 'gpt'
C2_RuleValidityDecides ==
    Len(ret) >= 1 =>
        /\ (SelA.rule_validity /\ ~SelB.rule_validity) => ret[1] = "gpt"
        /\ (~SelA.rule_validity /\ SelB.rule_validity) => ret[1] = "gemini"
        /\ (~SelA.rule_validity /\ ~SelB.rule_validity) => ret[1] = "gpt"

\* gpt is rule-valid with the larger stop distance and a total within 1 of the
\* invalid gemini score, and still wins
C2_Witness ==
    /\ Len(ret) >= 1
    /\ SelA.rule_validity /\ ~SelB.rule_validity
    /\ SelA.total_score <= 1
    /\ StopSmaller(SelB.stop_distance, SelA.stop_distance)
    /\ SelB.stop_distance[1] > 0
    /\ ret[1] = "gpt"

\* C3: both rule-valid and totals at least 2 apart: the higher total wins
\* whatever the stop distances are
C3_HigherTotalWins ==
    (Len(ret) >= 1 /\ BothValid /\ TotalGap >= 2) =>
        /\ SelA.total_score > SelB.total_score => ret[1] = "gpt"
        /\ SelB.total_score > SelA.total_score => ret[1] = "gemini"

\* gemini wins on a gap of exactly 2 although gpt has the tighter stop
C3_Witness ==
    /\ Len(ret) >= 1
    /\ BothValid
    /\ SelB.total_score = SelA.total_score + 2
    /\ SelA.stop_distance = Some(10) /\ SelB.stop_distance = None
    /\ ret[1] = "gemini"

\* C4: both rule-valid and totals within 1: the smaller stop distance wins,
\* for every pair of stop distances (0 included), an absent one being the
\* largest
C4_SmallerStopWins ==
    (Len(ret) >= 1 /\ BothValid /\ TotalGap <= 1) =>
        /\ StopSmaller(SelA.stop_distance, SelB.stop_distance) => ret[1] = "gpt"
        /\ StopSmaller(SelB.stop_distance, SelA.stop_distance) => ret[1] = "gemini"

\* C5 as stated: unless both are rule-invalid, the proposal chosen for (x, y)
\* is the proposal chosen for (y, x)
C5_Symmetric ==
    (Len(ret) = 2 /\ (SelA.rule_validity \/ SelB.rule_validity)) =>
        (ret[1] = "gpt" <=> ret[2] = "gemini")

\* both rule-valid, totals within 1 and equal stop distances as compared
StopTie ==
    BothValid /\ TotalGap <= 1 /\ EffectiveStop(SelA) = EffectiveStop(SelB)

\* C5 as amended: the choice is symmetric under swapping unless both scores
\* are rule-invalid or the pair is a stop tie; on a stop tie tag A ('gpt')
\* wins in both orders
C5_SymmetricExceptTies ==
    (Len(ret) = 2 /\ (SelA.rule_validity \/ SelB.rule_validity)) =>
        /\ ~StopTie => (ret[1] = "gpt" <=> ret[2] = "gemini")
        /\ StopTie => (ret[1] = "gpt" /\ ret[2] = "gpt")

\* the stop-distance rule decided, and decided for the same proposal in
\* both orders
C5_Witness ==
    /\ Len(ret) = 2
    /\ BothValid /\ TotalGap = 1
    /\ EffectiveStop(SelB) < EffectiveStop(SelA)
    /\ ret = <<"gemini", "gpt">>

-----------------------------------------------------------------------------
(* Claims about scoreScenario, under SpecScore *)

SubScoreSum(s) ==
    s.invalidation_clarity + s.risk_reward + s.structure_simplicity
    + s.resolution_speed

\* C6: a score's total is 0 when rule_validity is false and the sum of the
\* four sub-scores otherwise
C6_TotalZeroUnlessValid ==
    Len(ret) = 1 =>
        /\ ~ret[1].rule_validity => ret[1].total_score = 0
        /\ ret[1].rule_validity => ret[1].total_score = SubScoreSum(ret[1])
        /\ ret[1].total_score /= 0 => ret[1].rule_validity

\* a rule-invalid answer with all sub-scores at their maximum was scored
C6_Witness ==
    /\ Len(ret) = 1
    /\ args[2].kind = "ok"
    /\ ~ret[1].rule_validity
    /\ SubScoreSum(ret[1]) = 4 * MaxSubScore

\* C27: every score scoreScenario returns has its four sub-scores in
\* {0,1,2} and its total in 0..8, whatever the evaluator answered
C27_SubScoresInRange ==
    Len(ret) = 1 =>
        /\ ret[1].invalidation_clarity \in 0..RubricMax
        /\ ret[1].risk_reward \in 0..RubricMax
        /\ ret[1].structure_simplicity \in 0..RubricMax
        /\ ret[1].resolution_speed \in 0..RubricMax
        /\ ret[1].total_score \in 0..(4 * RubricMax)

-----------------------------------------------------------------------------
(* Claims about the retrieval functions, under SpecPriority and SpecHybrid *)

\* the call returned a context
Retrieved == Len(ret) = 1 /\ ret[1].kind = "ok"

Context == ret[1].context[1]

\* the number of chunks of the given type in the returned context
CountOfType(type) ==
    Cardinality({i \in DOMAIN Context.chunks : Context.chunks[i].chunk_type = type})

\* the place of a chunk type in the priority order
TypeRank(type) ==
    CASE type = "rule" -> 1 [] type = "exception" -> 2 [] type = "definition" -> 3

\* the chunks of the store that match_knowledge_chunks can return
Matching(store, type) ==
    {i \in DOMAIN store :
        store[i].similarity > matchThreshold /\ store[i].chunk_type = type}

\* C22: for a topK that 4 divides prioritySearch returns at most topK/2
\* rules, topK/4 exceptions and topK/4 definitions, at most topK chunks in
\* all, every rule before every exception and every exception before every
\* definition, and as many scores as chunks, the i-th score being the
\* similarity of the i-th chunk
C22_PrioritySplit ==
    Retrieved =>
        LET topK == args[2]
            chunks == Context.chunks
            scores == Context.similarity_scores
        IN /\ CountOfType("rule") <= topK \div 2
           /\ CountOfType("exception") <= topK \div 4
           /\ CountOfType("definition") <= topK \div 4
           /\ Len(chunks) <= topK
           /\ \A i, j \in DOMAIN chunks :
                 i < j => TypeRank(chunks[i].chunk_type)
                            <= TypeRank(chunks[j].chunk_type)
           /\ Len(scores) = Len(chunks)
           /\ \A i \in DOMAIN chunks :
                 /\ scores[i] = args[1][chunks[i].id].similarity
                 /\ chunks[i].chunk_type = args[1][chunks[i].id].chunk_type

\* with topK = 4 on a store that matches three rules and two exceptions the
\* result is two rules and then one exception
C22_Witness ==
    /\ Retrieved
    /\ args[2] = 4
    /\ Cardinality(Matching(args[1], "rule")) = 3
    /\ Cardinality(Matching(args[1], "exception")) = 2
    /\ Len(Context.chunks) = 3
    /\ Context.chunks[1].chunk_type = "rule"
    /\ Context.chunks[2].chunk_type = "rule"
    /\ Context.chunks[3].chunk_type = "exception"

\* the ids the vector search of hybridSearch returned
VectorIds ==
    LET v == searchKnowledge(args[1], args[2], None)
    IN {v.chunks[i].id : i \in DOMAIN v.chunks}

KeywordIds == IF args[3] = None THEN {} ELSE Range(args[3][1])

\* C23: hybridSearch returns no id twice; a chunk found by the vector search
\* and by the keyword search carries its vector similarity, a chunk found by
\* the keyword search only carries 0.5; the scores are in descending order
\* and aligned with the chunks; there are at most topK entries
C23_HybridDeduplicates ==
    Retrieved =>
        LET chunks == Context.chunks
            scores == Context.similarity_scores
        IN /\ \A i, j \in DOMAIN chunks : chunks[i].id = chunks[j].id => i = j
           /\ Len(scores) = Len(chunks)
           /\ \A i \in DOMAIN chunks :
                 /\ chunks[i].id \in VectorIds \cup KeywordIds
                 /\ chunks[i].id \in VectorIds =>
                       scores[i] = args[1][chunks[i].id].similarity
                 /\ chunks[i].id \notin VectorIds => scores[i] = keywordScore
           /\ \A i, j \in DOMAIN scores : i < j => scores[i] >= scores[j]
           /\ Len(chunks) <= args[2]
           /\ Context.total_retrieved = Len(chunks)

\* the keyword search returned a chunk the vector search returned too and
\* one it did not: the first comes once with its similarity, the second
\* with 0.5
C23_Witness ==
    /\ Retrieved
    /\ \E i, j \in DOMAIN Context.chunks :
          /\ Context.chunks[i].id \in VectorIds \cap KeywordIds
          /\ Context.similarity_scores[i] = 9
          /\ Context.chunks[j].id \in KeywordIds \ VectorIds
          /\ Context.similarity_scores[j] = keywordScore

-----------------------------------------------------------------------------
(* Claims about determineNextState, under SpecNextState *)

\* C9: a HOLD winner leads to WAITING from each of the five states, whatever
\* the label
C9_HoldGoesToWaiting ==
    (Len(ret) = 1 /\ args[2].direction = "HOLD") => ret[1] = "WAITING"

\* HOLD was applied to a confirmed state with an impulse label
C9_Witness ==
    /\ Len(ret) = 1
    /\ args[2].direction = "HOLD"
    /\ args[1] = "CONFIRMED_IMPULSE"
    /\ args[2].scenario_label = LabelImpulse
    /\ ret[1] = "WAITING"

\* the label holds the word in some letter case: one of its windows equals the
\* word once every letter of the window is put in lower case
ContainsAnyCase(label, word) ==
    \E i \in 1..Len(label) :
        /\ i + Len(word) - 1 <= Len(label)
        /\ \A j \in 1..Len(word) : LowerChar(label[i + j - 1]) = word[j]

\* C11: from BREAKOUT_WATCH with a non-HOLD winner the next state is
\* CONFIRMED_IMPULSE when the label contains 'impulse' in any letter case
\* (also when it contains 'correction' too), else CONFIRMED_CORRECTION when
\* it contains 'correction' in any letter case, else BREAKOUT_WATCH
C11_BreakoutWatchByLabel ==
    (Len(ret) = 1 /\ args[1] = "BREAKOUT_WATCH" /\ args[2].direction /= "HOLD") =>
        ret[1] = IF ContainsAnyCase(args[2].scenario_label, WordImpulse)
                 THEN "CONFIRMED_IMPULSE"
                 ELSE IF ContainsAnyCase(args[2].scenario_label, WordCorrection)
                 THEN "CONFIRMED_CORRECTION"
                 ELSE "BREAKOUT_WATCH"

\* a SHORT winner whose label has 'correction' before 'IMPULSE' confirmed the
\* impulse
C11_Witness ==
    /\ Len(ret) = 1
    /\ args[1] = "BREAKOUT_WATCH"
    /\ args[2].direction = "SHORT"
    /\ args[2].scenario_label = LabelBoth
    /\ ret[1] = "CONFIRMED_IMPULSE"

\* C13: from INVALIDATED_RESET the next state is WAITING for every direction
\* and every label
C13_ResetGoesToWaiting ==
    (Len(ret) = 1 /\ args[1] = "INVALIDATED_RESET") => ret[1] = "WAITING"

\* a LONG winner with an impulse label was applied to INVALIDATED_RESET
C13_Witness ==
    /\ Len(ret) = 1
    /\ args[1] = "INVALIDATED_RESET"
    /\ args[2].direction = "LONG"
    /\ args[2].scenario_label = LabelImpulse
    /\ ret[1] = "WAITING"

-----------------------------------------------------------------------------
(* Claims about checkRiskManagement, under SpecRisk *)

PositionsHit == args[2] >= 3
LossesHit == args[3] >= 3
\* both risk/reward sub-scores are below 1.5
RiskRewardHit ==
    /\ 2 * args[1].judge_scores.gpt.risk_reward < 3
    /\ 2 * args[1].judge_scores.gemini.risk_reward < 3

\* C15: the gate answers allowed = false exactly when the active positions
\* are at or over 3, or the consecutive losses are at or over 3, or both
\* risk/reward sub-scores are below 1.5; the reason is that of the first of
\* these checks that fails, in this order; allowed = true has no reason; the
\* call always returns
C15_GateChecksInOrder ==
    Len(ret) = 1 =>
        /\ ret[1].allowed = ~(PositionsHit \/ LossesHit \/ RiskRewardHit)
        /\ PositionsHit =>
              ret[1].reason = Some("Maximum concurrent positions (3) reached")
        /\ (~PositionsHit /\ LossesHit) =>
              ret[1].reason = Some("3 consecutive losses - system paused")
        /\ (~PositionsHit /\ ~LossesHit /\ RiskRewardHit) =>
              ret[1].reason = Some("Risk/Reward below minimum threshold (1.5)")
        /\ ret[1].allowed => ret[1].reason = None

\* all three checks fail on a LONG decision, the positions exactly at the
\* limit: the reason is the positions
C15_Witness ==
    /\ Len(ret) = 1
    /\ args[2] = 3 /\ args[3] = 4 /\ RiskRewardHit
    /\ args[1].decision = "LONG"
    /\ ~ret[1].allowed
    /\ ret[1].reason = Some("Maximum concurrent positions (3) reached")

-----------------------------------------------------------------------------
(* Claims about judgeScenarios, under SpecJudge *)

\* the step function of section 4.3, in tenths
StepRisk(rr) == IF rr >= 30 THEN 20 ELSE IF rr >= 20 THEN 15 ELSE 10

JudgeWinner == IF ret[1].selected_scenario = "gpt" THEN args[1] ELSE args[2]

\* C8 as stated: in every decision of judgeScenarios risk_percent is the step
\* function of the winning proposal's risk_reward_estimate
C8_RiskPercentOfWinner ==
    Len(ret) = 1 => ret[1].risk_percent = StepRisk(JudgeWinner.risk_reward_estimate)

\* C8 as amended: in every decision of judgeScenarios on a trading exchange
\* risk_percent is the step function of the winning proposal's estimate; on a
\* general-chat exchange risk_percent is 0
C8_RiskPercentOfTradingWinner ==
    Len(ret) = 1 =>
        /\ ~isGeneralChat(args[1]) =>
              ret[1].risk_percent = StepRisk(JudgeWinner.risk_reward_estimate)
        /\ isGeneralChat(args[1]) => ret[1].risk_percent = 0

\* gemini won with an estimate of 3 while gpt's estimate was 1.5
C8_Witness ==
    /\ Len(ret) = 1
    /\ ~isGeneralChat(args[1])
    /\ ret[1].selected_scenario = "gemini"
    /\ args[2].risk_reward_estimate = 30
    /\ args[1].risk_reward_estimate = 15
    /\ ret[1].risk_percent = 20

-----------------------------------------------------------------------------
(* Claims about the cycle, under Spec *)

Last(s) == s[Len(s)]

\* the decision carries the gate's override for the given reason
IsOverridden(decision, reason) ==
    /\ decision.decision = "HOLD"
    /\ Last(decision.reasoning) = "[Risk Override: " \o reason \o "]"

\* the proposal the selector chose in request r
Winner(r) ==
    IF finalDecision[r][1].selected_scenario = "gpt"
    THEN gptOutput[r][1] ELSE geminiOutput[r][1]

\* C1: once the gate has blocked, the decision of the cycle is HOLD and its
\* reasoning ends with the block reason, in the handler, in the inserted run
\* and in the response; the inserted run is the decision that is returned
C1_BlockedMeansHold ==
    \A r \in DOMAIN pc :
        /\ (Len(riskCheck[r]) = 1 /\ ~riskCheck[r][1].allowed) =>
              /\ Len(riskCheck[r][1].reason) = 1
              /\ IsOverridden(finalDecision[r][1], riskCheck[r][1].reason[1])
              /\ Len(runs[r]) = 1 =>
                    IsOverridden(runs[r][1].final_decision,
                                 riskCheck[r][1].reason[1])
        /\ (Len(response[r]) = 1 /\ response[r][1].status = 200) =>
              /\ ~response[r][1].risk_check[1].allowed =>
                    IsOverridden(response[r][1].final_decision[1],
                                 response[r][1].risk_check[1].reason[1])
              /\ Len(runs[r]) = 1 =>
                    runs[r][1].final_decision = response[r][1].final_decision[1]

\* a blocked cycle whose winner said LONG has inserted its run
C1_Witness ==
    \E r \in DOMAIN pc :
        /\ pc[r] = "save"
        /\ ~riskCheck[r][1].allowed
        /\ Len(runs[r]) = 1
        /\ Winner(r).direction = "LONG"
        /\ runs[r][1].final_decision.decision = "HOLD"

\* the neutral score of section 4.2, stop distance 2.0
NeutralScore(scenario) ==
    [scenario |-> scenario, rule_validity |-> TRUE, invalidation_clarity |-> 1,
     risk_reward |-> 1, structure_simplicity |-> 1, resolution_speed |-> 1,
     total_score |-> 4, stop_distance |-> Some(20)]

AfterJudge == {"risk", "insert", "save"}

Confirmed == {"CONFIRMED_IMPULSE", "CONFIRMED_CORRECTION"}

C10_Cycle(r) ==
    Len(finalDecision[r]) = 1 =>
        /\ (/\ ~isGeneralChat(gptOutput[r][1])
            /\ currentState[r][1] = "WAITING"
            /\ Winner(r).direction /= "HOLD")
              => finalDecision[r][1].state = "BREAKOUT_WATCH"
        /\ currentState[r][1] = "WAITING"
              => finalDecision[r][1].state \notin Confirmed
        /\ finalDecision[r][1].state = "CONFIRMED_IMPULSE" =>
              \/ currentState[r][1] = "CONFIRMED_IMPULSE"
              \/ /\ currentState[r][1] = "BREAKOUT_WATCH"
                 /\ includes(toLowerCase(Winner(r).scenario_label), WordImpulse)

C10_Step ==
    \A key \in DOMAIN trading_states' :
        LET fresh == key \notin DOMAIN trading_states
        IN /\ (fresh \/ trading_states[key].current_state = "WAITING") =>
                 trading_states'[key].current_state \notin Confirmed
           /\ (/\ trading_states'[key].current_state = "CONFIRMED_IMPULSE"
               /\ (fresh \/ trading_states[key].current_state /= "CONFIRMED_IMPULSE"))
                 => (~fresh /\ trading_states[key].current_state = "BREAKOUT_WATCH")

\* C10: a cycle that loaded WAITING and has a non-HOLD winner advances to
\* BREAKOUT_WATCH whatever the label; no cycle that loaded WAITING ends in a
\* confirmed state; CONFIRMED_IMPULSE is entered only from BREAKOUT_WATCH with
\* a label containing 'impulse', so the persisted state of a triple never
\* goes from absent or WAITING to a confirmed state in one step
C10_NoConfirmFromWaiting ==
    [](\A r \in DOMAIN pc : C10_Cycle(r)) /\ [][C10_Step]_vars

\* the second cycle: BREAKOUT_WATCH was persisted and loaded, and the winner's
\* label takes the machine to CONFIRMED_IMPULSE
C10_Witness ==
    \E r \in DOMAIN pc :
        /\ pc[r] = "save"
        /\ currentState[r][1] = "BREAKOUT_WATCH"
        /\ TripleOf(r) \in DOMAIN trading_states
        /\ trading_states[TripleOf(r)].current_state = "BREAKOUT_WATCH"
        /\ Winner(r).scenario_label = LabelImpulse
        /\ finalDecision[r][1].state = "CONFIRMED_IMPULSE"

\* the cycle of request r is a trading cycle whose winner is not HOLD
TradingNonHold(r) ==
    ~isGeneralChat(gptOutput[r][1]) /\ Winner(r).direction /= "HOLD"

C12_Cycle(r) ==
    (Len(finalDecision[r]) = 1 /\ currentState[r][1] \in Confirmed) =>
        /\ TradingNonHold(r) => finalDecision[r][1].state = currentState[r][1]
        /\ finalDecision[r][1].state \in {currentState[r][1], "WAITING"}
        /\ finalDecision[r][1].state = "WAITING" => ~TradingNonHold(r)

C12_Step ==
    /\ \A key \in DOMAIN trading_states :
          /\ trading_states[key].current_state = "CONFIRMED_IMPULSE"
                => trading_states'[key].current_state /= "CONFIRMED_CORRECTION"
          /\ trading_states[key].current_state = "CONFIRMED_CORRECTION"
                => trading_states'[key].current_state /= "CONFIRMED_IMPULSE"
    /\ \A r \in DOMAIN pc :
          (/\ pc[r] = "save"
           /\ trading_states' /= trading_states
           /\ currentState[r][1] \in Confirmed
           /\ TradingNonHold(r))
             => trading_states'[TripleOf(r)].current_state = currentState[r][1]

-----------------------------------------------------------------------------
(* Claims about TradingStateMachine, under SpecMachineFair and SpecMachine *)

\* C14: whenever the machine is in INVALIDATED_RESET, however it got there,
\* then unless an explicit transition follows it eventually goes to WAITING
\* by itself: from a history of n entries whose state is INVALIDATED_RESET
\* the machine reaches WAITING or a longer history made by a caller
C14_ResetRecovers ==
    \A n \in 1..(2 * MaxHistory) :
        (machine.currentState = "INVALIDATED_RESET" /\ Len(machine.history) = n)
            ~> (Len(machine.history) > n)

\* a timer's callback has run and has changed the machine
Recovered == timers' /= timers /\ timers' \subseteq timers /\ machine' /= machine

\* the latest entry of the history is an entry into INVALIDATED_RESET from
\* another state, so that `since` is the time of the machine's most recent
\* entry into INVALIDATED_RESET
EnteredReset ==
    /\ machine.currentState = "INVALIDATED_RESET"
    /\ Len(machine.history) >= 2
    /\ machine.history[Len(machine.history) - 1] /= "INVALIDATED_RESET"

\* C26: the timer's callback changes the machine only from INVALIDATED_RESET
\* to WAITING, and only when a full cooldown has passed since the machine's
\* most recent entry into INVALIDATED_RESET: so not sooner than a cooldown
\* after a second invalidate() that follows an explicit transition out, and
\* never over a state set by an explicit transition
C26_RecoveryAfterFullCooldown ==
    [][Recovered =>
          /\ machine.currentState = "INVALIDATED_RESET"
          /\ machine'.currentState = "WAITING"
          /\ EnteredReset => now >= machine.since + Cooldown]_vars

-----------------------------------------------------------------------------
(* Claims about failures in the cycle, under Spec *)

\* provider B failed in the cycle of request r: the proposal in hand is one of
\* the two analyzeAlternativeCount makes up when the model's reply has no
\* JSON or the call, the parse or the validation throws
GeminiFailed(r) ==
    /\ Len(geminiOutput[r]) = 1
    /\ geminiOutput[r][1].confirmation_trigger = NotApplicable
    /\ geminiOutput[r][1].scenario_label
          \in {LabelOnHold, LabelError, GeneralChatLabel}

\* the handler leaves the retrieval or provider A for the end of the cycle:
\* the answer is an error without a decision, no run is inserted and no
\* trading state is written
C16_AbortStep(r) ==
    (pc[r] \in {"rag", "gpt"} /\ pc'[r] = "idle") =>
        /\ response'[r][1].status = 500
        /\ response'[r][1].final_decision = None
        /\ runs'[r] = None
        /\ trading_states' = trading_states

\* C16 as stated: a failure of the retrieval, of provider A or of provider B
\* ends the cycle with an error response and without a run or a trading
\* state written; so the handler never goes on with a failed provider B
C16_AnyFailureAborts ==
    /\ [](\A r \in DOMAIN pc : ~GeminiFailed(r))
    /\ [][\A r \in DOMAIN pc : C16_AbortStep(r)]_vars

\* C16 as amended: a failure of the retrieval or of provider A ends the cycle
\* with an error response and without a run or a trading state written; a
\* failure of provider B does not end the cycle: the handler goes on to the
\* judge with a HOLD proposal of risk/reward estimate 0 in its place
C16_FailureAbortsExceptProviderB ==
    /\ [](\A r \in DOMAIN pc :
            GeminiFailed(r) =>
                /\ geminiOutput[r][1].direction = "HOLD"
                /\ geminiOutput[r][1].risk_reward_estimate = 0
                /\ pc[r] \in {"judge", "score_gemini"} \cup AfterJudge)
    /\ [][\A r \in DOMAIN pc :
            /\ C16_AbortStep(r)
            /\ (pc[r] = "gemini" /\ pc'[r] /= "gemini") =>
                  (pc'[r] = "judge" /\ Len(geminiOutput'[r]) = 1)]_vars

\* a cycle in which provider B threw has answered 200, with its run inserted
\* and its trading state written
C16_Witness ==
    \E r \in DOMAIN pc :
        /\ pc[r] = "idle"
        /\ Len(response[r]) = 1 /\ response[r][1].status = 200
        /\ Len(runs[r]) = 1
        /\ runs[r][1].gemini_alt.scenario_label = LabelError
        /\ runs[r][1].gpt_output.direction = "LONG"
        /\ <<response[r][1].conversation_id[1], "BTCUSDT", "4H">>
              \in DOMAIN trading_states

\* the insert of the run is over: whether the row went in or not, the
\* handler goes on to save the state with the decision it had
C17_InsertStep(r) ==
    (pc[r] = "insert" /\ pc'[r] /= "insert") =>
        /\ pc'[r] = "save"
        /\ finalDecision'[r] = finalDecision[r]
        /\ response'[r] = None

\* C17 as stated: a failed insert of the run or a failed upsert of the trading
\* state is only logged: every cycle that has computed its decision and
\* passed the risk gate answers 200 with that decision
C17_PersistenceFailureOnlyLogged ==
    [][\A r \in DOMAIN pc :
          /\ C17_InsertStep(r)
          /\ (pc[r] = "save" /\ pc'[r] = "idle") =>
                /\ response'[r][1].status = 200
                /\ response'[r][1].final_decision = finalDecision[r]]_vars

\* C17 as amended: a failed insert of the run is only logged and the cycle
\* goes on with its decision; a failed upsert of the trading state ends the
\* cycle with status 500 and without the decision, the inserted run staying:
\* the decision is answered only together with a stored trading state
C17_OnlyInsertFailureIsLogged ==
    [][\A r \in DOMAIN pc :
          /\ C17_InsertStep(r)
          /\ (pc[r] = "save" /\ pc'[r] = "idle") =>
                /\ runs'[r] = runs[r]
                /\ \/ /\ response'[r][1].status = 200
                      /\ response'[r][1].final_decision = finalDecision[r]
                      /\ TripleOf(r) \in DOMAIN trading_states'
                      /\ trading_states'[TripleOf(r)].current_state
                            = finalDecision[r][1].state
                   \/ /\ response'[r][1].status = 500
                      /\ response'[r][1].final_decision = None
                      /\ trading_states' = trading_states]_vars

\* the first cycle of a conversation inserted its run with a LONG decision,
\* failed to store the trading state and answered 500
C17_Witness ==
    \E r \in DOMAIN pc :
        /\ pc[r] = "idle"
        /\ Len(response[r]) = 1 /\ response[r][1].status = 500
        /\ Len(runs[r]) = 1
        /\ runs[r][1].final_decision.decision = "LONG"
        /\ trading_states = <<>>

\* request r is answered 400 in this step
Rejected(r) ==
    /\ response'[r] /= response[r]
    /\ Len(response'[r]) = 1
    /\ response'[r][1].status = 400

\* C18: a request whose query is missing or empty is answered 400 straight
\* from the entry of the handler: that step creates no conversation, writes
\* no run and no trading state, and the handler never holds such a body at
\* the conversation insert, the retrieval, a provider call or any later step
C18_MissingQueryRejectedFirst ==
    /\ [](\A r \in DOMAIN pc :
            pc[r] /= "idle" => (Len(body[r]) = 1 /\ ~Falsy(body[r][1].query)))
    /\ [][\A r \in DOMAIN pc :
            Rejected(r) =>
                /\ pc[r] = "idle" /\ pc'[r] = "idle"
                /\ response'[r][1].error = Some("Missing required field: query")
                /\ response'[r][1].final_decision = None
                /\ conversations' = conversations
                /\ trading_states' = trading_states
                /\ runs'[r] = None]_vars

\* after a cycle that stored BREAKOUT_WATCH, a request without a usable query
\* was answered 400 and the conversation and the stored state are as before
C18_Witness ==
    \E r \in DOMAIN pc :
        /\ pc[r] = "idle"
        /\ Len(response[r]) = 1 /\ response[r][1].status = 400
        /\ runs[r] = None
        /\ conversations = 1
        /\ <<1, "BTCUSDT", "4H">> \in DOMAIN trading_states
        /\ trading_states[<<1, "BTCUSDT", "4H">>].current_state = "BREAKOUT_WATCH"

-----------------------------------------------------------------------------
(* Claims about the persisted trading state, under Spec *)

\* the state stored for a triple, WAITING when the triple has no row
StoredState(key) ==
    IF key \in DOMAIN trading_states
    THEN trading_states[key].current_state ELSE "WAITING"

\* C19: the state a cycle takes as current is the state stored for its
\* triple, or WAITING when the triple has no row; and a cycle that answers
\* 200 leaves as the stored state of its triple the state field of the
\* decision it returns, in the one row of the triple
C19_StatePerTriple ==
    [][\A r \in DOMAIN pc :
          /\ (pc[r] = "load" /\ pc'[r] = "gpt") =>
                currentState'[r] = Some(StoredState(TripleOf(r)))
          /\ (pc[r] = "save" /\ pc'[r] = "idle"
                /\ response'[r][1].status = 200) =>
                /\ TripleOf(r) \in DOMAIN trading_states'
                /\ trading_states'[TripleOf(r)].current_state
                      = response'[r][1].final_decision[1].state
                /\ response'[r][1].current_state
                      = Some(response'[r][1].final_decision[1].state)]_vars

\* the call stateMachine.transition(finalDecision.state, ...) of request r
\* is about to run
Applying(r) == pc[r] = "save"

\* C24 as stated: the next state passed to transition() is a member of
\* getPossibleTransitions() for the state loaded at the start of the cycle
C24_AppliedInTable ==
    \A r \in DOMAIN pc :
        Applying(r) =>
            finalDecision[r][1].state \in getPossibleTransitions(currentState[r][1])

\* C24: the next state passed to transition() is either the state loaded at
\* the start of the cycle (the machine remains where it is) or a member of
\* getPossibleTransitions() for that state
C24_AppliedInTableOrRemains ==
    \A r \in DOMAIN pc :
        Applying(r) =>
            finalDecision[r][1].state
                \in getPossibleTransitions(currentState[r][1])
                     \cup {currentState[r][1]}

\* a cycle that loaded BREAKOUT_WATCH applies BREAKOUT_WATCH, which the table
\* does not list for BREAKOUT_WATCH
C24_Witness ==
    \E r \in DOMAIN pc :
        /\ Applying(r)
        /\ currentState[r][1] = "BREAKOUT_WATCH"
        /\ TripleOf(r) \in DOMAIN trading_states
        /\ trading_states[TripleOf(r)].current_state = "BREAKOUT_WATCH"
        /\ finalDecision[r][1].state = "BREAKOUT_WATCH"
        /\ "BREAKOUT_WATCH" \notin getPossibleTransitions("BREAKOUT_WATCH")

ProducedStates ==
    {"WAITING", "BREAKOUT_WATCH", "CONFIRMED_IMPULSE", "CONFIRMED_CORRECTION"}

\* C25: starting with no persisted state, after any sequence of cycles every
\* persisted trading state, and the state of every decision, is one of
\* WAITING, BREAKOUT_WATCH, CONFIRMED_IMPULSE, CONFIRMED_CORRECTION: the
\* cycle never produces INVALIDATED_RESET
C25_NeverInvalidated ==
    /\ \A key \in DOMAIN trading_states :
          trading_states[key].current_state \in ProducedStates
    /\ \A r \in DOMAIN pc :
          /\ Len(finalDecision[r]) = 1 =>
                finalDecision[r][1].state \in ProducedStates
          /\ Len(currentState[r]) = 1 => currentState[r][1] \in ProducedStates

\* a later cycle on a triple that reached CONFIRMED_CORRECTION has answered
\* and left the row in a produced state
C25_Witness ==
    \E r \in DOMAIN pc :
        /\ pc[r] = "idle"
        /\ Len(response[r]) = 1 /\ response[r][1].status = 200
        /\ response[r][1].current_state = Some("CONFIRMED_CORRECTION")
        /\ <<1, "BTCUSDT", "4H">> \in DOMAIN trading_states
        /\ trading_states[<<1, "BTCUSDT", "4H">>].current_state
              = "CONFIRMED_CORRECTION"

\* the fields of a decision the override is said to leave alone
KeptFields ==
    {"symbol", "timeframe", "entry_trigger", "invalidation", "risk_percent",
     "alternate_scenario", "state", "selected_scenario", "judge_scores"}

\* the gate has blocked the decision of request r
Blocked(r) == Len(riskCheck[r]) = 1 /\ ~riskCheck[r][1].allowed

C28_Step ==
    \A r \in DOMAIN pc :
        /\ (pc[r] = "risk" /\ pc'[r] = "insert" /\ ~riskCheck'[r][1].allowed) =>
              /\ \A f \in KeptFields :
                    finalDecision'[r][1][f] = finalDecision[r][1][f]
              /\ finalDecision'[r][1].decision = "HOLD"
              /\ finalDecision'[r][1].reasoning
                    = Append(finalDecision[r][1].reasoning,
                             Last(finalDecision'[r][1].reasoning))
        /\ (pc[r] = "save" /\ trading_states' /= trading_states) =>
              trading_states'[TripleOf(r)].current_state
                    = finalDecision[r][1].state

\* C28: a block changes only the direction (to HOLD) and the reasoning (one
\* sentence appended) of the decision; the other fields stay as the judge
\* computed them, so in a blocked trading cycle the state of the decision,
\* which is the state then persisted, is the state advanced from the
\* winner's own direction and the risk percent is the winner's
C28_OverrideKeepsState ==
    /\ [][C28_Step]_vars
    /\ [](\A r \in DOMAIN pc :
            (Blocked(r) /\ ~isGeneralChat(gptOutput[r][1])) =>
                /\ finalDecision[r][1].decision = "HOLD"
                /\ finalDecision[r][1].state
                      = determineNextState(currentState[r][1], Winner(r))
                /\ finalDecision[r][1].risk_percent
                      = calculateRiskPercent(Winner(r).risk_reward_estimate)
                /\ finalDecision[r][1].entry_trigger
                      = Winner(r).confirmation_trigger
                /\ finalDecision[r][1].invalidation
                      = Winner(r).invalidation_level)

\* a blocked cycle whose winner said LONG from WAITING has answered HOLD with
\* state BREAKOUT_WATCH, and BREAKOUT_WATCH is what the row holds
C28_Witness ==
    \E r \in DOMAIN pc :
        /\ pc[r] = "idle"
        /\ Len(response[r]) = 1 /\ response[r][1].status = 200
        /\ ~response[r][1].risk_check[1].allowed
        /\ response[r][1].final_decision[1].decision = "HOLD"
        /\ response[r][1].final_decision[1].state = "BREAKOUT_WATCH"
        /\ <<1, "BTCUSDT", "4H">> \in DOMAIN trading_states
        /\ trading_states[<<1, "BTCUSDT", "4H">>].current_state
              = "BREAKOUT_WATCH"

\* the evaluator failed for both proposals of request r
BothEvalsFailed(r) ==
    /\ Len(gptEval[r]) = 1 /\ gptEval[r][1].kind /= "ok"
    /\ Len(geminiEval[r]) = 1 /\ geminiEval[r][1].kind /= "ok"

RiskRewardBlock ==
    [allowed |-> FALSE,
     reason |-> Some("Risk/Reward below minimum threshold (1.5)")]

ChatJudged(r) ==
    /\ Len(finalDecision[r]) = 1
    /\ isGeneralChat(gptOutput[r][1])

\* the fields of a decision the coin may reach
CoinFields == {"selected_scenario", "alternate_scenario", "reasoning"}

\* the chat decision of request r had the coin fallen on c
ChatDecisionOn(r, c) ==
    GeneralChatDecision(gptOutput[r][1], geminiOutput[r][1],
                        body[r][1].symbol, body[r][1].timeframe, c)

C30_Cycle(r) ==
    ChatJudged(r) =>
        /\ finalDecision[r][1].decision = "HOLD"
        /\ finalDecision[r][1].state = "WAITING"
        /\ finalDecision[r][1].risk_percent = 0
        /\ gptEval[r] = None /\ geminiEval[r] = None /\ gptScore[r] = None
        /\ \A f \in DOMAIN ChatDecisionOn(r, "gpt") \ CoinFields :
              ChatDecisionOn(r, "gpt")[f] = ChatDecisionOn(r, "gemini")[f]
        /\ pc[r] = "risk" =>
              finalDecision[r][1]
                  = ChatDecisionOn(r, finalDecision[r][1].selected_scenario)

C30_Step ==
    \A r \in DOMAIN pc :
        (/\ pc[r] = "save"
         /\ ChatJudged(r)
         /\ response'[r][1].status = 200)
           => /\ trading_states'[TripleOf(r)].current_state = "WAITING"
              /\ response'[r][1].current_state = Some("WAITING")
              /\ response'[r][1].final_decision[1].decision = "HOLD"

\* C30: when proposal A carries the general-chat marker the decision is
\* HOLD with state WAITING and risk percent 0, whatever the loaded state
\* and the two directions, and no evaluation is made; the cycle that
\* answers leaves WAITING as the persisted state of its triple; the two
\* outcomes of the coin differ at most in selected_scenario,
\* alternate_scenario and reasoning
C30_ChatResetsToWaiting ==
    [](\A r \in DOMAIN pc : C30_Cycle(r)) /\ [][C30_Step]_vars

\* a chat exchange on a triple stored as CONFIRMED_IMPULSE, both proposals
\* saying LONG, is about to store WAITING
C30_Witness ==
    \E r \in DOMAIN pc :
        /\ pc[r] = "save"
        /\ ChatJudged(r)
        /\ currentState[r][1] = "CONFIRMED_IMPULSE"
        /\ TripleOf(r) \in DOMAIN trading_states
        /\ trading_states[TripleOf(r)].current_state = "CONFIRMED_IMPULSE"
        /\ gptOutput[r][1].direction = "LONG"
        /\ geminiOutput[r][1].direction = "LONG"
        /\ finalDecision[r][1].selected_scenario = "gemini"
        /\ finalDecision[r][1].state = "WAITING"

-----------------------------------------------------------------------------
(* Claims about concurrent cycles, under SpecRace *)

\* request r answers 200 in this step: its upsert happens
Upserts(r) ==
    /\ pc[r] = "save" /\ pc'[r] = "idle"
    /\ response'[r][1].status = 200

\* the state a cycle decides on comes from the state it loaded
C20_Cycle(r) ==
    Len(finalDecision[r]) = 1 =>
        finalDecision[r][1].state =
            IF isGeneralChat(gptOutput[r][1]) THEN "WAITING"
            ELSE determineNextState(currentState[r][1], Winner(r))

C20_Step ==
    /\ \A r \in DOMAIN pc :
          \* the load takes the state stored at that moment
          /\ (pc[r] = "load" /\ pc'[r] = "gpt") =>
                currentState'[r] = Some(StoredState(TripleOf(r)))
          \* and the cycle keeps it whatever is stored meanwhile
          /\ (Len(currentState[r]) = 1 /\ pc'[r] /= "idle") =>
                currentState'[r] = currentState[r]
          \* the upsert stores the cycle's value over any row
          /\ Upserts(r) =>
                /\ trading_states'[TripleOf(r)].current_state
                      = finalDecision[r][1].state
                /\ \A key \in DOMAIN trading_states \ {TripleOf(r)} :
                      trading_states'[key] = trading_states[key]
    \* and nothing else writes the table
    /\ trading_states' /= trading_states => \E r \in DOMAIN pc : Upserts(r)

\* C20: with two cycles in flight on one triple, each cycle decides on the
\* state it loaded at its start, and each upsert stores its cycle's value
\* whatever the row holds by then, so the stored state is always the value of
\* the upsert that happened last; a value decided on a stale load is written
\* like any other
C20_LastWriterWins ==
    [](\A r \in DOMAIN pc : C20_Cycle(r)) /\ [][C20_Step]_vars

\* request q has taken the triple to CONFIRMED_IMPULSE while request r, which
\* loaded WAITING, is about to store BREAKOUT_WATCH
C20_Witness ==
    \E r, q \in DOMAIN pc :
        /\ r /= q
        /\ pc[r] = "save"
        /\ currentState[r][1] = "WAITING"
        /\ finalDecision[r][1].state = "BREAKOUT_WATCH"
        /\ StoredState(TripleOf(r)) = "CONFIRMED_IMPULSE"
        /\ pc[q] = "idle"
        /\ Len(response[q]) = 1 /\ response[q][1].status = 200
        /\ response[q][1].conversation_id = convId[r]
        /\ response[q][1].final_decision[1].state = "CONFIRMED_IMPULSE"

-----------------------------------------------------------------------------
(* Claims about cycles on different triples, under SpecPair *)

\* the row of the key differs before and after the step
RowChanged(key) ==
    \/ key \in DOMAIN trading_states' \ DOMAIN trading_states
    \/ key \in DOMAIN trading_states \ DOMAIN trading_states'
    \/ /\ key \in DOMAIN trading_states \cap DOMAIN trading_states'
       /\ trading_states'[key] /= trading_states[key]

\* the decision the handler of request r holds is the one its own inputs
\* and the state it loaded give
OwnDecision(r) ==
    LET judged == TradingDecision(gptOutput[r][1], geminiOutput[r][1],
                                  body[r][1].symbol, body[r][1].timeframe,
                                  currentState[r][1], gptScore[r][1],
                                  scoreScenario("gemini", geminiEval[r][1]))
    IN IF pc[r] = "risk" THEN judged
       ELSE ApplyRiskOverride(judged, riskCheck[r][1])

C21_Step ==
    \A r \in DOMAIN pc :
        \* the load reads the row of the cycle's own triple
        /\ (pc[r] = "load" /\ pc'[r] = "gpt") =>
              currentState'[r] = Some(StoredState(TripleOf(r)))
        \* a step of the cycle leaves every other triple's row as it is
        /\ pc'[r] /= pc[r] =>
              \A key \in DOMAIN trading_states \cup DOMAIN trading_states' :
                   RowChanged(key) => (Len(convId[r]) = 1 /\ key = TripleOf(r))
        \* between its load and its upsert no other cycle touches its row
        /\ (/\ Len(currentState[r]) = 1
            /\ pc'[r] = pc[r])
              => ~RowChanged(TripleOf(r))

\* C21: cycles on different triples do not interfere: a cycle reads and
\* writes only the row of its own triple, no step of a cycle on another
\* triple changes that row, and the decision a cycle holds is a function of
\* its own proposals, scores and risk check and of the state it loaded, so
\* that the decision and the state it stores are the same in every
\* interleaving with the other cycle
C21_TriplesIndependent ==
    /\ [][C21_Step]_vars
    /\ [](\A r \in DOMAIN pc :
            /\ Len(finalDecision[r]) = 1 => finalDecision[r][1] = OwnDecision(r)
            /\ Len(currentState[r]) = 1 =>
                  currentState[r][1] = StoredState(TripleOf(r)))

\* in one conversation the cycle on BTCUSDT is about to store
\* CONFIRMED_IMPULSE while the cycle on ETHUSDT, which started later and
\* finished first, has stored BREAKOUT_WATCH
C21_Witness ==
    /\ pc[1] = "save"
    /\ TripleOf(1) = <<1, "BTCUSDT", "4H">>
    /\ currentState[1][1] = "BREAKOUT_WATCH"
    /\ finalDecision[1][1].state = "CONFIRMED_IMPULSE"
    /\ pc[2] = "idle"
    /\ Len(response[2]) = 1 /\ response[2][1].status = 200
    /\ <<1, "ETHUSDT", "4H">> \in DOMAIN trading_states
    /\ trading_states[<<1, "ETHUSDT", "4H">>].current_state = "BREAKOUT_WATCH"
    /\ trading_states[<<1, "BTCUSDT", "4H">>].current_state = "BREAKOUT_WATCH"

=============================================================================
